---------------------------- MODULE Spec2Model ----------------------------
(***************************************************************************)
(* Aura: file-resident asset records (.aav), the Record Store that reads   *)
(* and writes them (aura/core/aav.py), the Sampling Loop that feeds them   *)
(* (aura/sensors/base.py) and the Guardian's Repairer                      *)
(* (aura/guardian/repairer.py).                                            *)
(*                                                                         *)
(* One record file is modelled together with its two siblings, the backup  *)
(* (.aav.backup) and the temporary file (.tmp).  The file system is a map  *)
(* from the three names to inodes and a map from inodes to contents, so    *)
(* that open('w') (truncation in place), buffered writes flushed at close, *)
(* rename and unlink act as they do under POSIX.  A file's content is a    *)
(* sequence of TOML tokens; toml.dump and toml.load are the operators      *)
(* Dump and Parse over that text.                                          *)
(***************************************************************************)
EXTENDS Integers, Sequences, FiniteSets, TLC

(***************************************************************************)
(* Bounds of the model.                                                    *)
(***************************************************************************)
MaxCalls == 1
MaxClientCalls == 2
MaxIters == 9
MaxUpdates == 2
MaxDetectorCalls == 3
MaxTime == 451
MaxShards == 3
MaxHash == 5
MaxValidations == 52
MaxCycles == 2

(***************************************************************************)
(* BaseSensor.__init__: the sampling configuration, in milliseconds, and   *)
(* the failure thresholds.                                                 *)
(***************************************************************************)
default_interval == 500
min_interval == 100
max_interval == 5000
\* _should_update: the seconds after which a write is due whatever the detector says
update_fallback == 300
max_failures == 5
degraded_failures == 3

(***************************************************************************)
(* ChangeThreshold defaults, the age of the time-based fallback in         *)
(* seconds, the default percent change and the length of a MetricHistory.  *)
(***************************************************************************)
threshold_cpu_percent == 5
threshold_memory_percent == 5
threshold_storage_percent == 1
threshold_network_connections == 10
response_time_multiplier == 2
default_percent_change == 10
max_age == 300
history_maxlen == 60
\* AAVValidator
MAX_AGE_SECONDS == 300

(***************************************************************************)
(* Values of a TOML document.  Every value is a triple <<type, text, n>>   *)
(* so that any two values can be compared.                                 *)
(***************************************************************************)
Str(s) == <<"str", s, 0>>
\* datetime.now(timezone.utc).isoformat() with the trailing +00:00 replaced by Z
TsZ(t) == <<"ts", "Z", t>>
\* datetime.now(timezone.utc).isoformat() + 'Z', i.e. "...+00:00Z"
TsOffZ(t) == <<"ts", "+00:00Z", t>>
EmptyList == <<"list", "", 0>>
BoolTrue == <<"bool", "true", 0>>
\* a nested mapping (sub-table) such as a section's real_time, identified by n
Table(n) == <<"table", "", n>>
None == <<"none", "", 0>>
\* Python literals that have found their way into a file: not TOML values
PyTrue == <<"py", "True", 0>>
PyNone == <<"py", "None", 0>>

REQUIRED_SECTIONS ==
    <<"metadata", "asset", "compute", "memory", "storage", "network", "services">>
sensor_sections == <<"compute", "memory", "storage", "network", "services">>

Range(s) == {s[i] : i \in DOMAIN s}
Blocks == Range(REQUIRED_SECTIONS)
Sections == Range(sensor_sections)

\* the order in which the keys of a table are written
KeyOrder ==
    <<"format_version", "asset_id", "id", "type", "name", "status", "tags",
      "last_updated", "schema_version", "emergency_rebuild", "rebuild_reason",
      "sensor", "sensor_status", "real_time">>

EmptyRecord == <<>>

(***************************************************************************)
(* Text of a file: a sequence of tokens.  A header token opens a table, a  *)
(* kv token is one "key = value" line, a bad token is text that is not     *)
(* TOML (k names what is wrong with it).                                   *)
(***************************************************************************)
Hdr(b) == [t |-> "hdr", k |-> b, v |-> None]
KV(k, v) == [t |-> "kv", k |-> k, v |-> v]
Bad(kind) == [t |-> "bad", k |-> kind, v |-> None]

EmptyText == <<>>

RECURSIVE DumpKeys(_, _)
\* the "key = value" lines of one table; a key whose value is None is not written
DumpKeys(tbl, i) ==
    IF i > Len(KeyOrder) THEN <<>>
    ELSE LET k == KeyOrder[i] IN
         (IF k \in DOMAIN tbl /\ tbl[k] # None THEN <<KV(k, tbl[k])>> ELSE <<>>)
            \o DumpKeys(tbl, i + 1)

RECURSIVE DumpBlocks(_, _)
DumpBlocks(rec, i) ==
    IF i > Len(REQUIRED_SECTIONS) THEN <<>>
    ELSE LET b == REQUIRED_SECTIONS[i] IN
         (IF b \in DOMAIN rec THEN <<Hdr(b)>> \o DumpKeys(rec[b], 1) ELSE <<>>)
            \o DumpBlocks(rec, i + 1)

\* toml.dump(data, f): the text of a record
Dump(rec) == DumpBlocks(rec, 1)

RECURSIVE ParseFrom(_, _, _, _)
\* toml.load from token i on: rec is what has been read, cur the open table
ParseFrom(text, i, rec, cur) ==
    IF i > Len(text) THEN [ok |-> TRUE, rec |-> rec]
    ELSE LET tok == text[i] IN
         CASE tok.t = "hdr" ->
                IF tok.k \in DOMAIN rec
                THEN [ok |-> FALSE, rec |-> EmptyRecord]      \* table defined twice
                ELSE ParseFrom(text, i + 1, (tok.k :> EmptyRecord) @@ rec, tok.k)
           [] tok.t = "kv" ->
                IF cur = "" \/ tok.k \in DOMAIN rec[cur] \/ tok.v[1] = "py"
                THEN [ok |-> FALSE, rec |-> EmptyRecord]      \* key defined twice, bad value
                ELSE ParseFrom(text, i + 1,
                               [rec EXCEPT ![cur] = (tok.k :> tok.v) @@ rec[cur]], cur)
           [] OTHER -> [ok |-> FALSE, rec |-> EmptyRecord]    \* TomlDecodeError

\* toml.load(f) / toml.loads(s): [ok, rec]; the empty text is the empty record
Parse(text) == ParseFrom(text, 1, EmptyRecord, "")

(***************************************************************************)
(* Records.  A record maps block names to tables, a table maps keys to     *)
(* values.                                                                 *)
(***************************************************************************)
\* dict.update: shallow merge of patch into tbl
Merge(tbl, patch) ==
    [k \in DOMAIN tbl \cup DOMAIN patch |->
        IF k \in DOMAIN patch THEN patch[k] ELSE tbl[k]]

\* create_empty with "name": asset_name, the "or asset_id" forgotten
Skeleton_NameAsGiven(asset_id, asset_type, asset_name, timestamp) ==
    [metadata |-> [format_version |-> Str("2.0.0"),
                   asset_id |-> asset_id,
                   last_updated |-> timestamp,
                   schema_version |-> Str("2.0")],
     asset |-> [id |-> asset_id,
                type |-> asset_type,
                name |-> asset_name,
                status |-> Str("unknown"),
                tags |-> EmptyList],
     compute |-> [last_updated |-> timestamp, sensor_status |-> Str("initializing")],
     memory |-> [last_updated |-> timestamp, sensor_status |-> Str("initializing")],
     storage |-> [last_updated |-> timestamp, sensor_status |-> Str("initializing")],
     network |-> [last_updated |-> timestamp, sensor_status |-> Str("initializing")],
     services |-> [last_updated |-> timestamp, sensor_status |-> Str("initializing")]]

\* AAVFile.create_empty: the minimal valid structure
Skeleton(asset_id, asset_type, asset_name, timestamp) ==
    [metadata |-> [format_version |-> Str("2.0.0"),
                   asset_id |-> asset_id,
                   last_updated |-> timestamp,
                   schema_version |-> Str("2.0")],
     asset |-> [id |-> asset_id,
                type |-> asset_type,
                name |-> IF asset_name \in {None, Str("")} THEN asset_id ELSE asset_name,
                status |-> Str("unknown"),
                tags |-> EmptyList],
     compute |-> [last_updated |-> timestamp, sensor_status |-> Str("initializing")],
     memory |-> [last_updated |-> timestamp, sensor_status |-> Str("initializing")],
     storage |-> [last_updated |-> timestamp, sensor_status |-> Str("initializing")],
     network |-> [last_updated |-> timestamp, sensor_status |-> Str("initializing")],
     services |-> [last_updated |-> timestamp, sensor_status |-> Str("initializing")]]

\* AAVMetadata.parse_datetime: a trailing Z becomes +00:00, then
\* datetime.fromisoformat, which accepts one UTC offset and no more
ParsesAsDatetime(v) == v[1] = "ts" /\ v[2] = "Z"

IsStr(v) == v[1] \in {"str", "ts"}

\* AAVMetadata(**data['metadata']): asset_id is required, last_updated has a default
MetadataAccepted(m) ==
    /\ "asset_id" \in DOMAIN m /\ IsStr(m["asset_id"])
    /\ "last_updated" \in DOMAIN m => ParsesAsDatetime(m["last_updated"])
    /\ "format_version" \in DOMAIN m => IsStr(m["format_version"])
    /\ "schema_version" \in DOMAIN m => IsStr(m["schema_version"])

\* AssetInfo(**data['asset']): id and type are required
AssetAccepted(a) ==
    /\ "id" \in DOMAIN a /\ IsStr(a["id"])
    /\ "type" \in DOMAIN a /\ IsStr(a["type"])
    /\ "name" \in DOMAIN a => (IsStr(a["name"]) \/ a["name"] = None)
    /\ "status" \in DOMAIN a => IsStr(a["status"])
    /\ "tags" \in DOMAIN a => a["tags"][1] = "list"

\* validate without the check that the required sections exist: the sensor
\* sections are looked at only "if section in data"
validate_SectionsOptional(data) ==
    /\ "metadata" \in DOMAIN data /\ MetadataAccepted(data["metadata"])
    /\ "asset" \in DOMAIN data /\ AssetAccepted(data["asset"])
    /\ \A s \in Sections \cap DOMAIN data :
          "last_updated" \in DOMAIN data[s] /\ "sensor_status" \in DOMAIN data[s]

\* AAVFile.validate: TRUE where it returns True, FALSE where it raises
validate(data) ==
    /\ \A s \in Blocks : s \in DOMAIN data
    /\ MetadataAccepted(data["metadata"])
    /\ AssetAccepted(data["asset"])
    /\ \A s \in Sections :
          "last_updated" \in DOMAIN data[s] /\ "sensor_status" \in DOMAIN data[s]

(***************************************************************************)
(* State.                                                                  *)
(***************************************************************************)
VARIABLES
    names,      \* the directory: "primary", "backup", "tmp" |-> inode, 0 if no such file
    inodes,     \* inode |-> text
    now,        \* the clock read by datetime.now
    pc,         \* per caller: where it stands in the call it is making
    op,         \* per caller: the operation it is making or made last
    arg,        \* per caller: the arguments of that operation
    data,       \* per caller: the record it holds (read, merged, to be written)
    ret,        \* per caller: what its last read returned
    result,     \* per caller: "none", "ok" once its call has returned, or the error
                \* its call has met: "missing", "decode", "validation", "io", "notfound"
    fd,         \* per caller: the inode of the file it has open, 0 if none
    lock,       \* per caller: the flock it holds on that file: "none", "sh", "ex"
    calls,      \* per caller: number of calls finished
    snap,       \* per caller: primary and backup as they were when its call began
    prev,       \* per caller: the call before the current one
    committed,  \* history: every record some write has put whole into a file
    \* BaseSensor, per Sampling Loop
    status,                 \* SensorStatus
    running,                \* the running flag
    consecutive_failures,
    sampling_interval,      \* in milliseconds
    stats,                  \* samples_collected, updates_written, errors, last_*_time
    lpc,                    \* where the loop stands in start / _monitoring_loop
    iters,                  \* iterations begun
    detected,               \* what the change detector answered, metric by metric of
                            \* real_time, in the iteration under way
    \* AAVRepairer, per Guardian
    gpc,        \* where repair() stands in its chain of strategies
    gbuf,       \* the text a strategy is about to write
    gres,       \* the RepairResult: success and repair_strategy
    gval,       \* the latest ValidationResult, and whether repair() had returned by then
    \* ChangeDetector
    previous_values,    \* metric name -> the value last recorded
    history,            \* metric name -> MetricHistory (values, timestamps)
    last_update_time,   \* metric name -> when it was last recorded
    cd_log,             \* the should_update calls made so far and what they returned
    \* DistributedGuardian, per shard, and the assets directory they share
    total_shards,
    assets_dir,         \* the asset ids that have a .aav file in the directory
    md5,                \* asset id -> int(hashlib.md5(id).hexdigest(), 16)
    shard_running,
    my_assets,
    shard_stats,        \* validations_performed, repair_successes, repair_failures
    shard_health,       \* the status of the latest ShardHealth returned by get_health
    monitor             \* per shard: where _file_integrity_monitor (fim) and _self_monitor
                        \* (smon) stand, the rest of the for loop, the repairs awaited

storeVars == <<names, inodes, now, pc, op, arg, data, ret, result, fd, lock,
               calls, snap, prev, committed>>

sensorVars == <<status, running, consecutive_failures, sampling_interval, stats,
                lpc, iters, detected>>

guardVars == <<gpc, gbuf, gres, gval>>

detectorVars == <<previous_values, history, last_update_time, cd_log>>

shardVars == <<total_shards, assets_dir, md5, shard_running, my_assets,
               shard_stats, shard_health, monitor>>

vars == <<storeVars, sensorVars, guardVars, detectorVars, shardVars>>

Sensors == {"s1", "s2"}
Readers == {"r1"}
Clients == {"c1"}
\* Sampling Loops run whole, with their state machine
Loops == {"m1"}
\* a Guardian's repair runs in a thread of its own (run_in_executor)
Guardians == {"g1"}
Procs == Sensors \cup Readers \cup Clients \cup Loops \cup Guardians

\* the section a sensor is bound to (BaseSensor.section_name)
SectionOf(p) ==
    CASE p = "s1" -> "compute"
      [] p = "s2" -> "memory"
      [] OTHER -> "storage"

NumInodes == 6
Inodes == 1 .. NumInodes
Names == {"primary", "backup", "tmp"}

Referenced(nm, f) == {nm[n] : n \in Names} \cup {f[p] : p \in Procs}
\* a new file gets an inode nobody refers to
NewInode(nm, f) ==
    CHOOSE i \in Inodes \ Referenced(nm, f) :
        \A j \in Inodes \ Referenced(nm, f) : i <= j
\* an inode with no name and no open descriptor is gone
Sweep(nm, f, ino) ==
    [i \in Inodes |-> IF i \in Referenced(nm, f) THEN ino[i] ELSE EmptyText]

\* Path.exists() and the content of the file of that name
Exists(n) == names[n] # 0
FileOf(n) == [exists |-> Exists(n),
              text |-> IF Exists(n) THEN inodes[names[n]] ELSE EmptyText]

\* write() at offset 0 of a file opened with 'w': what lay beyond stays
Overlay(old, new) ==
    IF Len(old) > Len(new) THEN new \o SubSeq(old, Len(new) + 1, Len(old)) ELSE new

NoArg == [section |-> "", patch |-> EmptyRecord, backup |-> TRUE]
NoCall == [op |-> "none", result |-> "none", data |-> EmptyRecord]
Failures == {"missing", "decode", "validation", "io", "notfound"}

\* a caller's call returns (res = "ok") or raises AAVFileError (res names the cause)
Finish(p, res) ==
    /\ pc' = [pc EXCEPT ![p] = "idle"]
    /\ result' = [result EXCEPT ![p] = res]
    /\ calls' = [calls EXCEPT ![p] = @ + 1]

\* the number of calls a caller makes
CallBound(p) ==
    CASE p \in Clients -> MaxClientCalls
      [] p \in Loops -> MaxUpdates
      [] OTHER -> MaxCalls

\* a caller begins a call: the clock has moved on
Begin(p, o, a) ==
    /\ pc[p] = "idle"
    /\ calls[p] < CallBound(p)
    /\ op' = [op EXCEPT ![p] = o]
    /\ arg' = [arg EXCEPT ![p] = a]
    /\ now' = now + 1
    /\ result' = [result EXCEPT ![p] = "none"]
    /\ snap' = [snap EXCEPT ![p] = [primary |-> FileOf("primary"),
                                    backup |-> FileOf("backup")]]
    /\ prev' = [prev EXCEPT ![p] = [op |-> op[p], result |-> result[p],
                                    data |-> data[p]]]

(***************************************************************************)
(* AAVFile.read                                                            *)
(***************************************************************************)
\* update_section that puts the patch in the place of the section
UpdateSectionIn_Replace(rec, section, patch) ==
    [b \in DOMAIN rec \cup {section} |-> IF b = section THEN patch ELSE rec[b]]

\* update_section: current[section].update(data), the section made if absent
UpdateSectionIn(rec, section, patch) ==
    [b \in DOMAIN rec \cup {section} |->
        IF b = section
        THEN Merge(IF section \in DOMAIN rec THEN rec[section] ELSE EmptyRecord, patch)
        ELSE rec[b]]

\* a caller asks for the record: Read(id)
StartRead(p) ==
    /\ Begin(p, "read", NoArg)
    /\ pc' = [pc EXCEPT ![p] = "r_open"]
    /\ UNCHANGED <<names, inodes, data, ret, fd, lock, calls, committed>>

\* read: file_path.exists() and open(file_path, 'r')
R_Open(p) ==
    /\ pc[p] = "r_open"
    /\ IF ~Exists("primary")
       THEN /\ Finish(p, "missing")
            /\ UNCHANGED fd
       ELSE /\ fd' = [fd EXCEPT ![p] = names["primary"]]
            /\ pc' = [pc EXCEPT ![p] = "r_lock"]
            /\ UNCHANGED <<result, calls>>
    /\ UNCHANGED <<names, inodes, now, op, arg, data, ret, lock, snap, prev, committed>>

\* read: fcntl.flock(f.fileno(), LOCK_SH) waits while another holds LOCK_EX on the file
R_Lock(p) ==
    /\ pc[p] = "r_lock"
    /\ \A q \in Procs \ {p} : ~(fd[q] = fd[p] /\ lock[q] = "ex")
    /\ lock' = [lock EXCEPT ![p] = "sh"]
    /\ pc' = [pc EXCEPT ![p] = "r_load"]
    /\ UNCHANGED <<names, inodes, now, op, arg, data, ret, result, fd, calls, snap,
                   prev, committed>>

\* read: toml.load(f), LOCK_UN, close, return data (or raise); within
\* update_section the merge of the patch follows
R_Load(p) ==
    /\ pc[p] = "r_load"
    /\ LET r == Parse(inodes[fd[p]]) IN
         /\ lock' = [lock EXCEPT ![p] = "none"]
         /\ fd' = [fd EXCEPT ![p] = 0]
         /\ inodes' = Sweep(names, fd', inodes)
         /\ IF ~r.ok
            THEN /\ Finish(p, "decode")
                 /\ UNCHANGED <<data, ret>>
            ELSE IF op[p] = "read"
            THEN /\ Finish(p, "ok")
                 /\ ret' = [ret EXCEPT ![p] = r.rec]
                 /\ UNCHANGED data
            ELSE /\ data' = [data EXCEPT ![p] =
                                UpdateSectionIn(r.rec, arg[p].section, arg[p].patch)]
                 /\ pc' = [pc EXCEPT ![p] = "w_validate"]
                 /\ UNCHANGED <<ret, result, calls>>
    /\ UNCHANGED <<names, now, op, arg, snap, prev, committed>>

(***************************************************************************)
(* AAVFile.write                                                           *)
(***************************************************************************)
\* a caller writes a record: Write(record, createBackup)
StartWrite(p, rec, backup) ==
    /\ Begin(p, "write", [NoArg EXCEPT !.backup = backup])
    /\ data' = [data EXCEPT ![p] = rec]
    /\ pc' = [pc EXCEPT ![p] = "w_validate"]
    /\ UNCHANGED <<names, inodes, ret, fd, lock, calls, committed>>

\* write: self.validate(data), then "if create_backup and self.file_path.exists()"
W_Validate(p) ==
    /\ pc[p] = "w_validate"
    /\ pc' = [pc EXCEPT ![p] =
                IF ~validate(data[p]) THEN "w_except"
                ELSE IF arg[p].backup /\ Exists("primary") THEN "b_open"
                ELSE "w_open"]
    /\ result' = [result EXCEPT ![p] = IF ~validate(data[p]) THEN "validation" ELSE @]
    /\ UNCHANGED <<names, inodes, now, op, arg, data, ret, fd, lock, calls,
                   snap, prev, committed>>

\* _create_backup, shutil.copy2: the primary is opened, the backup made or truncated
B_Open(p) ==
    /\ pc[p] = "b_open"
    /\ fd' = [fd EXCEPT ![p] = names["primary"]]
    /\ IF Exists("backup")
       THEN /\ names' = names
            /\ inodes' = [inodes EXCEPT ![names["backup"]] = EmptyText]
       ELSE /\ names' = [names EXCEPT !["backup"] = NewInode(names, fd')]
            /\ inodes' = inodes
    /\ pc' = [pc EXCEPT ![p] = "b_copy"]
    /\ UNCHANGED <<now, op, arg, data, ret, result, lock, calls, snap, prev, committed>>

\* _create_backup, shutil.copy2: the bytes are copied, both files closed
B_Copy(p) ==
    /\ pc[p] = "b_copy"
    /\ fd' = [fd EXCEPT ![p] = 0]
    /\ inodes' = Sweep(names, fd', [inodes EXCEPT ![names["backup"]] = inodes[fd[p]]])
    /\ pc' = [pc EXCEPT ![p] = "w_open"]
    /\ UNCHANGED <<names, now, op, arg, data, ret, result, lock, calls, snap, prev,
                   committed>>

\* _create_backup, except Exception: the copy has failed, at the opening of the
\* backup file or after it; a warning is logged and the write goes on
B_Fault(p) ==
    /\ \/ /\ pc[p] = "b_open"
          /\ UNCHANGED <<names, inodes, fd>>
       \/ /\ pc[p] = "b_copy"
          /\ fd' = [fd EXCEPT ![p] = 0]
          /\ inodes' = Sweep(names, fd', inodes)
          /\ UNCHANGED names
    /\ pc' = [pc EXCEPT ![p] = "w_open"]
    /\ UNCHANGED <<now, op, arg, data, ret, result, lock, calls, snap, prev, committed>>

\* write: data['metadata']['last_updated'] = timestamp
Stamp(rec, t) ==
    [rec EXCEPT !["metadata"] = Merge(rec["metadata"], [last_updated |-> TsZ(t)])]

\* write that opens the record file itself with 'w' instead of a .tmp sibling
W_Open_InPlace(p) ==
    /\ pc[p] = "w_open"
    /\ data' = [data EXCEPT ![p] = Stamp(data[p], now)]
    /\ IF Exists("primary")
       THEN /\ fd' = [fd EXCEPT ![p] = names["primary"]]
            /\ names' = names
            /\ inodes' = [inodes EXCEPT ![names["primary"]] = EmptyText]
       ELSE /\ fd' = [fd EXCEPT ![p] = NewInode(names, fd)]
            /\ names' = [names EXCEPT !["primary"] = NewInode(names, fd)]
            /\ inodes' = inodes
    /\ pc' = [pc EXCEPT ![p] = "w_lock"]
    /\ UNCHANGED <<now, op, arg, ret, result, lock, calls, snap, prev, committed>>

\* write: the timestamp is set and open(temp_path, 'w') makes or truncates the .tmp file
W_Open(p) ==
    /\ pc[p] = "w_open"
    /\ data' = [data EXCEPT ![p] = Stamp(data[p], now)]
    /\ IF Exists("tmp")
       THEN /\ fd' = [fd EXCEPT ![p] = names["tmp"]]
            /\ names' = names
            /\ inodes' = [inodes EXCEPT ![names["tmp"]] = EmptyText]
       ELSE /\ fd' = [fd EXCEPT ![p] = NewInode(names, fd)]
            /\ names' = [names EXCEPT !["tmp"] = NewInode(names, fd)]
            /\ inodes' = inodes
    /\ pc' = [pc EXCEPT ![p] = "w_lock"]
    /\ UNCHANGED <<now, op, arg, ret, result, lock, calls, snap, prev, committed>>

\* write: fcntl.flock(f.fileno(), LOCK_EX) waits while another holds any lock on the file
W_Lock(p) ==
    /\ pc[p] = "w_lock"
    /\ \A q \in Procs \ {p} : ~(fd[q] = fd[p] /\ lock[q] # "none")
    /\ lock' = [lock EXCEPT ![p] = "ex"]
    /\ pc' = [pc EXCEPT ![p] = "w_dump"]
    /\ UNCHANGED <<names, inodes, now, op, arg, data, ret, result, fd, calls, snap,
                   prev, committed>>

\* write without the "finally: LOCK_UN": the lock goes only when the file is closed
W_Dump_NoUnlock(p) ==
    /\ pc[p] = "w_dump"
    /\ pc' = [pc EXCEPT ![p] = "w_close"]
    /\ UNCHANGED <<names, inodes, now, op, arg, data, ret, result, fd, lock, calls, snap,
                   prev, committed>>

\* write: toml.dump(data, f) fills the file object's buffer, then LOCK_UN
W_Dump(p) ==
    /\ pc[p] = "w_dump"
    /\ lock' = [lock EXCEPT ![p] = "none"]
    /\ pc' = [pc EXCEPT ![p] = "w_close"]
    /\ UNCHANGED <<names, inodes, now, op, arg, data, ret, result, fd, calls, snap,
                   prev, committed>>

\* write whose buffer never reaches the file
W_Close_NoFlush(p) ==
    /\ pc[p] = "w_close"
    /\ fd' = [fd EXCEPT ![p] = 0]
    /\ inodes' = Sweep(names, fd', inodes)
    /\ lock' = [lock EXCEPT ![p] = "none"]
    /\ committed' = committed \cup {data[p]}
    /\ pc' = [pc EXCEPT ![p] = "w_rename"]
    /\ UNCHANGED <<names, now, op, arg, data, ret, result, calls, snap, prev>>

\* write: leaving the with block closes the file, which flushes the buffer into it
W_Close(p) ==
    /\ pc[p] = "w_close"
    /\ fd' = [fd EXCEPT ![p] = 0]
    /\ inodes' = Sweep(names, fd',
                       [inodes EXCEPT ![fd[p]] = Overlay(inodes[fd[p]], Dump(data[p]))])
    /\ lock' = [lock EXCEPT ![p] = "none"]
    /\ committed' = committed \cup {data[p]}
    /\ pc' = [pc EXCEPT ![p] = "w_rename"]
    /\ UNCHANGED <<names, now, op, arg, data, ret, result, calls, snap, prev>>

\* write: temp_path.replace(self.file_path); FileNotFoundError if .tmp is gone
W_Rename(p) ==
    /\ pc[p] = "w_rename"
    /\ IF Exists("tmp")
       THEN /\ names' = [names EXCEPT !["primary"] = names["tmp"], !["tmp"] = 0]
            /\ inodes' = Sweep(names', fd, inodes)
            /\ Finish(p, "ok")
       ELSE /\ pc' = [pc EXCEPT ![p] = "w_except"]
            /\ result' = [result EXCEPT ![p] = "notfound"]
            /\ UNCHANGED <<names, inodes, calls>>
    /\ UNCHANGED <<now, op, arg, data, ret, fd, lock, snap, prev, committed>>

\* write: an I/O error between the writing of the .tmp file and the rename
W_Fault(p) ==
    /\ pc[p] = "w_rename"
    /\ pc' = [pc EXCEPT ![p] = "w_except"]
    /\ result' = [result EXCEPT ![p] = "io"]
    /\ UNCHANGED <<names, inodes, now, op, arg, data, ret, fd, lock, calls,
                   snap, prev, committed>>

\* the process dies between the writing of the .tmp file and the rename
Crash(p) ==
    /\ pc[p] = "w_rename"
    /\ pc' = [pc EXCEPT ![p] = "crashed"]
    /\ UNCHANGED <<names, inodes, now, op, arg, data, ret, result, fd, lock, calls,
                   snap, prev, committed>>

\* the except branch without the clean-up of the .tmp file
W_Except_KeepsTmp(p) ==
    /\ pc[p] = "w_except"
    /\ Finish(p, result[p])
    /\ UNCHANGED <<names, inodes, now, op, arg, data, ret, fd, lock, snap, prev, committed>>

\* write, except Exception: the .tmp file is unlinked if it exists, AAVFileError raised
W_Except(p) ==
    /\ pc[p] = "w_except"
    /\ names' = [names EXCEPT !["tmp"] = 0]
    /\ inodes' = Sweep(names', fd, inodes)
    /\ Finish(p, result[p])
    /\ UNCHANGED <<now, op, arg, data, ret, fd, lock, snap, prev, committed>>

\* an update that starts from a fresh skeleton when there is no file
StartUpdate_FromSkeleton(p, section, patch) ==
    /\ Begin(p, "update", [section |-> section, patch |-> patch, backup |-> TRUE])
    /\ IF Exists("primary")
       THEN /\ pc' = [pc EXCEPT ![p] = "r_open"]
            /\ UNCHANGED data
       ELSE /\ pc' = [pc EXCEPT ![p] = "w_validate"]
            /\ data' = [data EXCEPT ![p] =
                          UpdateSectionIn(Skeleton(Str("a1"), Str("vm"), None, TsZ(now)),
                                          section, patch)]
    /\ UNCHANGED <<names, inodes, ret, fd, lock, calls, committed>>

(***************************************************************************)
(* AAVFile.update_section and AAVFile.create_empty                         *)
(***************************************************************************)
\* update_section: "self.read() if self.file_path.exists() else {}", then the merge
StartUpdate(p, section, patch) ==
    /\ Begin(p, "update", [section |-> section, patch |-> patch, backup |-> TRUE])
    /\ IF Exists("primary")
       THEN /\ pc' = [pc EXCEPT ![p] = "r_open"]
            /\ UNCHANGED data
       ELSE /\ pc' = [pc EXCEPT ![p] = "w_validate"]
            /\ data' = [data EXCEPT ![p] = UpdateSectionIn(EmptyRecord, section, patch)]
    /\ UNCHANGED <<names, inodes, ret, fd, lock, calls, committed>>

\* create_empty: the skeleton is built and written with create_backup=False
StartCreate(p, asset_id, asset_type, asset_name) ==
    /\ Begin(p, "create", [NoArg EXCEPT !.backup = FALSE])
    /\ data' = [data EXCEPT ![p] = Skeleton(asset_id, asset_type, asset_name, TsZ(now))]
    /\ pc' = [pc EXCEPT ![p] = "w_validate"]
    /\ UNCHANGED <<names, inodes, ret, fd, lock, calls, committed>>

(***************************************************************************)
(* AAVFile.restore_from_backup                                             *)
(***************************************************************************)
\* a caller asks for the backup to be put back: RestoreFromBackup()
StartRestore(p) ==
    /\ Begin(p, "restore", NoArg)
    /\ pc' = [pc EXCEPT ![p] = "t_open"]
    /\ UNCHANGED <<names, inodes, data, ret, fd, lock, calls, committed>>

\* restore_from_backup: False if there is no backup; else shutil.copy2 opens the
\* backup and makes or truncates the primary
T_Open(p) ==
    /\ pc[p] = "t_open"
    /\ IF ~Exists("backup")
       THEN /\ Finish(p, "false")
            /\ UNCHANGED <<names, inodes, fd>>
       ELSE /\ fd' = [fd EXCEPT ![p] = names["backup"]]
            /\ IF Exists("primary")
               THEN /\ names' = names
                    /\ inodes' = [inodes EXCEPT ![names["primary"]] = EmptyText]
               ELSE /\ names' = [names EXCEPT !["primary"] = NewInode(names, fd')]
                    /\ inodes' = inodes
            /\ pc' = [pc EXCEPT ![p] = "t_copy"]
            /\ UNCHANGED <<result, calls>>
    /\ UNCHANGED <<now, op, arg, data, ret, lock, snap, prev, committed>>

\* a restore that closes both files without copying the bytes
T_Copy_Empty(p) ==
    /\ pc[p] = "t_copy"
    /\ fd' = [fd EXCEPT ![p] = 0]
    /\ inodes' = Sweep(names, fd', inodes)
    /\ Finish(p, "ok")
    /\ UNCHANGED <<names, now, op, arg, data, ret, lock, snap, prev, committed>>

\* restore_from_backup: the bytes are copied, both files closed, True returned
T_Copy(p) ==
    /\ pc[p] = "t_copy"
    /\ fd' = [fd EXCEPT ![p] = 0]
    /\ inodes' = Sweep(names, fd', [inodes EXCEPT ![names["primary"]] = inodes[fd[p]]])
    /\ Finish(p, "ok")
    /\ UNCHANGED <<names, now, op, arg, data, ret, lock, snap, prev, committed>>

\* BaseSensor._update_aav_file: the patch a sensor hands to update_section
SensorPatch(n, st, t) ==
    [real_time |-> Table(n), last_updated |-> TsOffZ(t),
     sensor |-> Str("Sensor"), sensor_status |-> Str(st)]

\* one step of a call under way
StoreStep(p) ==
    \/ R_Open(p) \/ R_Lock(p) \/ R_Load(p)
    \/ W_Validate(p) \/ B_Open(p) \/ B_Copy(p)
    \/ W_Open(p) \/ W_Lock(p) \/ W_Dump(p) \/ W_Close(p) \/ W_Rename(p)
    \/ W_Except(p)

(***************************************************************************)
(* The Record Store under concurrent callers: two Sampling Loops, each     *)
(* updating its own section of the one record, and a reader.               *)
(***************************************************************************)
NoFile == [exists |-> FALSE, text |-> EmptyText]
File(text) == [exists |-> TRUE, text |-> text]

\* the record AuraMonitoringService.initialize creates before the sensors start
InitialRecord == Skeleton(Str("a1"), Str("server"), Str("a1"), TsZ(0))

\* the three files as given, every caller idle
StoreInit(primary, backup, tmp) ==
    /\ names = [n \in Names |->
                  CASE n = "primary" -> IF primary.exists THEN 1 ELSE 0
                    [] n = "backup" -> IF backup.exists THEN 2 ELSE 0
                    [] n = "tmp" -> IF tmp.exists THEN 3 ELSE 0]
    /\ inodes = [i \in Inodes |->
                  CASE i = 1 -> primary.text
                    [] i = 2 -> backup.text
                    [] i = 3 -> tmp.text
                    [] OTHER -> EmptyText]
    /\ now = 1
    /\ pc = [p \in Procs |-> "idle"]
    /\ op = [p \in Procs |-> "none"]
    /\ arg = [p \in Procs |-> NoArg]
    /\ data = [p \in Procs |-> EmptyRecord]
    /\ ret = [p \in Procs |-> EmptyRecord]
    /\ result = [p \in Procs |-> "none"]
    /\ fd = [p \in Procs |-> 0]
    /\ lock = [p \in Procs |-> "none"]
    /\ calls = [p \in Procs |-> 0]
    /\ snap = [p \in Procs |-> [primary |-> NoFile, backup |-> NoFile]]
    /\ prev = [p \in Procs |-> NoCall]
    /\ committed = IF primary.exists /\ Parse(primary.text).ok
                   THEN {Parse(primary.text).rec} ELSE {}

\* BaseSensor.__init__
SensorInit ==
    /\ status = [m \in Loops |-> "initializing"]
    /\ running = [m \in Loops |-> FALSE]
    /\ consecutive_failures = [m \in Loops |-> 0]
    /\ sampling_interval = [m \in Loops |-> default_interval]
    /\ stats = [m \in Loops |-> [samples_collected |-> 0, updates_written |-> 0,
                                 errors |-> 0, last_sample_time |-> 0,
                                 last_update_time |-> 0]]
    /\ lpc = [m \in Loops |-> "new"]
    /\ iters = [m \in Loops |-> 0]
    /\ detected = [m \in Loops |-> <<>>]

\* ChangeDetector.__init__: nothing recorded
DetectorInit ==
    /\ previous_values = <<>>
    /\ history = <<>>
    /\ last_update_time = <<>>
    /\ cd_log = <<>>

\* DistributedGuardian.__init__: neither loop runs, nothing is awaited
NotStarted(repair_enabled) ==
    [fim |-> "off", smon |-> "off", todo |-> {}, inflight |-> {}, checked |-> {},
     cycle_dir |-> {}, cycles |-> 0, samples |-> 0, repair_enabled |-> repair_enabled]

\* one DistributedGuardian, shard 0 of 1, over an empty directory
ShardInit ==
    /\ total_shards = 1
    /\ assets_dir = {}
    /\ md5 = <<>>
    /\ shard_running = [k \in {0} |-> FALSE]
    /\ my_assets = [k \in {0} |-> {}]
    /\ shard_stats = [k \in {0} |-> [validations_performed |-> 0, repairs_performed |-> 0,
                                      repair_successes |-> 0, repair_failures |-> 0]]
    /\ shard_health = [k \in {0} |-> "none"]
    /\ monitor = [k \in {0} |-> NotStarted(TRUE)]

\* AAVRepairer.__init__: nothing under repair
GuardInit ==
    /\ gpc = [g \in Guardians |-> "idle"]
    /\ gbuf = [g \in Guardians |-> EmptyText]
    /\ gres = [g \in Guardians |-> [success |-> FALSE, repair_strategy |-> ""]]
    /\ gval = [g \in Guardians |-> [called |-> FALSE, stage |-> "idle", valid |-> FALSE,
                                  errors |-> {}, warnings |-> {}, raised |-> FALSE]]

Init == StoreInit(File(Dump(InitialRecord)), NoFile, NoFile) /\ SensorInit /\ GuardInit /\ DetectorInit /\ ShardInit

SensorCall(p) == StartUpdate(p, SectionOf(p), SensorPatch(calls[p] + 1, "healthy", now))

StoreNext ==
    \/ \E p \in Sensors : SensorCall(p) \/ StoreStep(p) \/ W_Fault(p)
    \/ \E p \in Readers : StartRead(p) \/ StoreStep(p)

Next == StoreNext /\ UNCHANGED <<sensorVars, guardVars, detectorVars, shardVars>>

Spec == Init /\ [][Next]_vars

(***************************************************************************)
(* The Record Store under one caller that makes one call after another:    *)
(* any of Read, Write, CreateEmpty and UpdateSection, on a directory that  *)
(* may hold an older record, an older backup and a .tmp file left behind   *)
(* by a process that died.                                                 *)
(***************************************************************************)
\* the record without block b
Without(rec, b) == [x \in DOMAIN rec \ {b} |-> rec[x]]

OldRecord == Skeleton(Str("a1"), Str("container"), Str("a1"), TsZ(0))
OlderRecord ==
    [OldRecord EXCEPT !["asset"] = Merge(@, [status |-> Str("running")])]

\* records a caller hands to Write: a whole one, what it has read, and ones
\* that lack a required block
WriteInputs(p) ==
    {OldRecord, ret[p]} \cup {Without(OldRecord, b) : b \in Blocks}

AssetIds == {Str("a1"), Str("x")}
AssetTypes == {Str("container"), Str("vm")}
AssetNames == {None, Str("n1")}

ClientPatches ==
    {SensorPatch(1, "healthy", now),
     [sensor_status |-> Str("degraded")],
     [last_updated |-> TsOffZ(now), sensor_status |-> Str("stopped")]}

SeqInit ==
    \E primary \in {NoFile, File(Dump(OldRecord))},
       backup \in {NoFile, File(Dump(OlderRecord))},
       tmp \in {NoFile, File(<<Hdr("metadata"), Bad("truncated")>>)} :
        StoreInit(primary, backup, tmp) /\ SensorInit /\ GuardInit /\ DetectorInit /\ ShardInit

SeqCalls ==
    \E p \in Clients :
        \/ StartRead(p)
        \/ \E rec \in WriteInputs(p), backup \in BOOLEAN : StartWrite(p, rec, backup)
        \/ \E id \in AssetIds, ty \in AssetTypes, nm \in AssetNames :
              StartCreate(p, id, ty, nm)
        \/ \E s \in Sections, patch \in ClientPatches : StartUpdate(p, s, patch)
        \/ StartRestore(p)
        \/ StoreStep(p)
        \/ T_Open(p)
        \/ T_Copy(p)
        \/ B_Fault(p)
        \/ W_Fault(p)
        \/ Crash(p)

SeqNext == SeqCalls /\ UNCHANGED <<sensorVars, guardVars, detectorVars, shardVars>>

SeqSpec == SeqInit /\ [][SeqNext]_vars

(***************************************************************************)
(* The Sampling Loop (BaseSensor).  The loop is a coroutine: it gives up   *)
(* control only in asyncio.sleep, so stop() and a cancellation reach it    *)
(* there and nowhere else.                                                 *)
(***************************************************************************)
\* the loop of _should_update over processed_data.get("real_time", {}): the
\* first yes of the change detector ends it
RECURSIVE AnyTrue(_)
AnyTrue(answers) ==
    IF answers = <<>> THEN FALSE
    ELSE IF Head(answers) THEN TRUE
    ELSE AnyTrue(Tail(answers))

\* no real_time subtree, one metric that did not change, a second one that did
Answers == {<<>>, <<FALSE>>, <<FALSE, TRUE>>}

Min(a, b) == IF a < b THEN a ELSE b
Max(a, b) == IF a > b THEN a ELSE b

RECURSIVE Pow(_, _)
Pow(b, k) == IF k = 0 THEN 1 ELSE b * Pow(b, k - 1)

\* _on_success that declares every sensor HEALTHY again
OnSuccess_AlwaysHealthy(m) ==
    /\ consecutive_failures' = [consecutive_failures EXCEPT ![m] = 0]
    /\ sampling_interval' = [sampling_interval EXCEPT ![m] =
                               Max(min_interval, (@ * 95) \div 100)]
    /\ status' = [status EXCEPT ![m] = "healthy"]

\* _on_failure whose thresholds are compared with > instead of >=
OnFailure_Late(m) ==
    LET f == consecutive_failures[m] + 1
        k == Min(f, 5)
    IN  /\ consecutive_failures' = [consecutive_failures EXCEPT ![m] = f]
        /\ sampling_interval' = [sampling_interval EXCEPT ![m] =
                                   Min(max_interval, (@ * Pow(3, k)) \div Pow(2, k))]
        /\ status' = [status EXCEPT ![m] =
                        IF f > max_failures THEN "unhealthy"
                        ELSE IF f > degraded_failures THEN "degraded"
                        ELSE @]

\* _on_success: failures reset, the interval eased by 5%, DEGRADED recovers
OnSuccess(m) ==
    /\ consecutive_failures' = [consecutive_failures EXCEPT ![m] = 0]
    /\ sampling_interval' = [sampling_interval EXCEPT ![m] =
                               Max(min_interval, (@ * 95) \div 100)]
    /\ status' = [status EXCEPT ![m] = IF @ = "degraded" THEN "healthy" ELSE @]

\* _on_failure: interval * 1.5 ** min(failures, 5), then the status thresholds
OnFailure(m) ==
    LET f == consecutive_failures[m] + 1
        k == Min(f, 5)
    IN  /\ consecutive_failures' = [consecutive_failures EXCEPT ![m] = f]
        /\ sampling_interval' = [sampling_interval EXCEPT ![m] =
                                   Min(max_interval, (@ * Pow(3, k)) \div Pow(2, k))]
        /\ status' = [status EXCEPT ![m] =
                        IF f >= max_failures THEN "unhealthy"
                        ELSE IF f >= degraded_failures THEN "degraded"
                        ELSE @]

\* start, up to the call of _monitoring_loop
Start(m) ==
    /\ lpc[m] = "new"
    /\ running' = [running EXCEPT ![m] = TRUE]
    /\ status' = [status EXCEPT ![m] = "healthy"]
    /\ lpc' = [lpc EXCEPT ![m] = "top"]
    /\ UNCHANGED <<consecutive_failures, sampling_interval, stats, iters, detected, storeVars>>

\* a loop that does not look at the running flag (`while True`)
LoopTop_IgnoresFlag(m) ==
    /\ lpc[m] = "top"
    /\ iters[m] < MaxIters
    /\ lpc' = [lpc EXCEPT ![m] = "collect"]
    /\ iters' = [iters EXCEPT ![m] = @ + 1]
    /\ UNCHANGED <<running, status, consecutive_failures, sampling_interval, stats,
                   detected, storeVars>>

\* `while self.running`: another iteration, or the loop returns and start's
\* finally clause sets running False and status STOPPED
LoopTop(m) ==
    /\ lpc[m] = "top"
    /\ IF running[m]
       THEN /\ iters[m] < MaxIters
            /\ lpc' = [lpc EXCEPT ![m] = "collect"]
            /\ iters' = [iters EXCEPT ![m] = @ + 1]
            /\ UNCHANGED <<running, status>>
       ELSE /\ lpc' = [lpc EXCEPT ![m] = "exited"]
            /\ running' = [running EXCEPT ![m] = FALSE]
            /\ status' = [status EXCEPT ![m] = "stopped"]
            /\ UNCHANGED iters
    /\ UNCHANGED <<consecutive_failures, sampling_interval, stats, detected, storeVars>>

\* collect() returns a sample
CollectOk(m) ==
    /\ lpc[m] = "collect"
    /\ stats' = [stats EXCEPT ![m].samples_collected = @ + 1,
                              ![m].last_sample_time = now]
    /\ lpc' = [lpc EXCEPT ![m] = "process"]
    /\ UNCHANGED <<running, status, consecutive_failures, sampling_interval, iters,
                   detected, storeVars>>

\* a loop without the try/except of the iteration: the error leaves
\* _monitoring_loop and start's own handlers end the sensor
IterationFails_Propagates(m, at) ==
    /\ lpc[m] = at
    /\ lpc' = [lpc EXCEPT ![m] = "exited"]
    /\ running' = [running EXCEPT ![m] = FALSE]
    /\ status' = [status EXCEPT ![m] = "stopped"]
    /\ UNCHANGED <<consecutive_failures, sampling_interval, stats, iters, detected, storeVars>>

\* collect() or process() raises: the except clause of the iteration
IterationFails(m, at) ==
    /\ lpc[m] = at
    /\ stats' = [stats EXCEPT ![m].errors = @ + 1]
    /\ OnFailure(m)
    /\ lpc' = [lpc EXCEPT ![m] = "sleep"]
    /\ UNCHANGED <<running, iters, detected, storeVars>>

CollectFails(m) == IterationFails(m, "collect")
ProcessFails(m) == IterationFails(m, "process")

\* _should_update that falls back on the clock from 300 seconds on
ShouldUpdate_FromFiveMinutes(m, answers, t) ==
    \/ stats[m].updates_written = 0
    \/ AnyTrue(answers)
    \/ t - stats[m].last_update_time >= update_fallback

\* _should_update: the first write always; then a metric of real_time for which
\* the change detector says yes; then more than 300 seconds since the last write
ShouldUpdate(m, answers, t) ==
    \/ stats[m].updates_written = 0
    \/ AnyTrue(answers)
    \/ t - stats[m].last_update_time > update_fallback

\* process() returns and _should_update decides; `answers` is what the change
\* detector says for the metrics of real_time, asked one by one until one is
\* a yes, and not asked at all before the first write
Decide(m, answers) ==
    /\ lpc[m] = "process"
    /\ detected' = [detected EXCEPT ![m] =
                       IF stats[m].updates_written = 0 THEN <<>> ELSE answers]
    /\ IF ShouldUpdate(m, detected'[m], now)
       THEN /\ lpc' = [lpc EXCEPT ![m] = "update"]
            /\ UNCHANGED <<status, consecutive_failures, sampling_interval>>
       ELSE /\ lpc' = [lpc EXCEPT ![m] = "sleep"]
            /\ OnSuccess(m)
    /\ UNCHANGED <<running, stats, iters, storeVars>>

\* _update_aav_file calls update_section with the sensor's section
UpdateBegin(m) ==
    /\ lpc[m] = "update"
    /\ StartUpdate(m, SectionOf(m),
                   SensorPatch(stats[m].samples_collected, status[m], now))
    /\ lpc' = [lpc EXCEPT ![m] = "updating"]
    /\ UNCHANGED <<running, status, consecutive_failures, sampling_interval, stats,
                   iters, detected>>

\* update_section is under way
UpdateStep(m) ==
    /\ lpc[m] = "updating"
    /\ StoreStep(m) \/ W_Fault(m)
    /\ UNCHANGED sensorVars

\* an iteration that counts the update before it knows how it ended
UpdateDone_CountsAttempts(m) ==
    /\ lpc[m] = "updating"
    /\ pc[m] = "idle"
    /\ IF result[m] = "ok"
       THEN /\ stats' = [stats EXCEPT ![m].updates_written = @ + 1,
                                      ![m].last_update_time = now]
            /\ OnSuccess(m)
       ELSE /\ stats' = [stats EXCEPT ![m].updates_written = @ + 1,
                                      ![m].errors = @ + 1]
            /\ OnFailure(m)
    /\ lpc' = [lpc EXCEPT ![m] = "sleep"]
    /\ UNCHANGED <<running, iters, detected, storeVars>>

\* update_section has returned or raised: the rest of the iteration
UpdateDone(m) ==
    /\ lpc[m] = "updating"
    /\ pc[m] = "idle"
    /\ IF result[m] = "ok"
       THEN /\ stats' = [stats EXCEPT ![m].updates_written = @ + 1,
                                      ![m].last_update_time = now]
            /\ OnSuccess(m)
       ELSE /\ stats' = [stats EXCEPT ![m].errors = @ + 1]
            /\ OnFailure(m)
    /\ lpc' = [lpc EXCEPT ![m] = "sleep"]
    /\ UNCHANGED <<running, iters, detected, storeVars>>

\* asyncio.sleep returns, d seconds later; the locals of the iteration are gone
WakeAfter(m, d) ==
    /\ lpc[m] = "sleep"
    /\ now + d <= MaxTime
    /\ lpc' = [lpc EXCEPT ![m] = "top"]
    /\ now' = now + d
    /\ detected' = [detected EXCEPT ![m] = <<>>]
    /\ UNCHANGED <<names, inodes, pc, op, arg, data, ret, result, fd, lock, calls,
                   snap, prev, committed>>
    /\ UNCHANGED <<running, status, consecutive_failures, sampling_interval, stats,
                   iters>>

\* asyncio.sleep returns
Wake(m) ==
    /\ lpc[m] = "sleep"
    /\ lpc' = [lpc EXCEPT ![m] = "top"]
    /\ now' = now + 1
    /\ detected' = [detected EXCEPT ![m] = <<>>]
    /\ UNCHANGED <<names, inodes, pc, op, arg, data, ret, result, fd, lock, calls,
                   snap, prev, committed>>
    /\ UNCHANGED <<running, status, consecutive_failures, sampling_interval, stats,
                   iters>>

\* stop(), called by another coroutine while the loop sleeps
Stop(m) ==
    /\ lpc[m] = "sleep"
    /\ running[m]
    /\ running' = [running EXCEPT ![m] = FALSE]
    /\ status' = [status EXCEPT ![m] = "stopped"]
    /\ UNCHANGED <<consecutive_failures, sampling_interval, stats, lpc, iters,
                   detected, storeVars>>

\* the task is cancelled in its sleep: CancelledError, then start's finally
Cancel(m) ==
    /\ lpc[m] = "sleep"
    /\ lpc' = [lpc EXCEPT ![m] = "exited"]
    /\ running' = [running EXCEPT ![m] = FALSE]
    /\ status' = [status EXCEPT ![m] = "stopped"]
    /\ UNCHANGED <<consecutive_failures, sampling_interval, stats, iters, detected, storeVars>>

SensorSteps ==
    \E m \in Loops :
        \/ Start(m)
        \/ LoopTop(m)
        \/ CollectOk(m)
        \/ CollectFails(m)
        \/ ProcessFails(m)
        \/ \E answers \in Answers : Decide(m, answers)
        \/ UpdateBegin(m)
        \/ UpdateStep(m)
        \/ UpdateDone(m)
        \/ Wake(m)
        \/ Stop(m)
        \/ Cancel(m)

SensorNext == SensorSteps /\ UNCHANGED <<guardVars, detectorVars, shardVars>>

SensorSpec == Init /\ [][SensorNext]_vars

(***************************************************************************)
(* The Sampling Loop with sleeps that end late (the event loop was busy,   *)
(* the host was suspended), over a record file that is there or missing.   *)
(***************************************************************************)
\* the seconds a late sleep takes: five minutes, and a second more
LateSteps == {update_fallback, update_fallback + 1}

SamplingInit ==
    /\ \E primary \in {File(Dump(InitialRecord)), NoFile} :
           StoreInit(primary, NoFile, NoFile)
    /\ SensorInit /\ GuardInit /\ DetectorInit /\ ShardInit

SamplingSteps ==
    \E m \in Loops :
        \/ Start(m)
        \/ LoopTop(m)
        \/ CollectOk(m)
        \/ CollectFails(m)
        \/ \E answers \in Answers : Decide(m, answers)
        \/ UpdateBegin(m)
        \/ UpdateStep(m)
        \/ UpdateDone(m)
        \/ Wake(m)
        \/ \E d \in LateSteps : WakeAfter(m, d)

SamplingNext == SamplingSteps /\ UNCHANGED <<guardVars, detectorVars, shardVars>>

SamplingSpec == SamplingInit /\ [][SamplingNext]_vars

(***************************************************************************)
(* The Sampling Loop of a sensor built with an interval of the caller's    *)
(* choosing: BaseSensor.__init__ stores sampling_interval as it is given.  *)
(***************************************************************************)
\* 0.05 s, the default, the 5.0 s of ServicesSensor, and 10 s
InitialIntervals == {min_interval \div 2, default_interval, max_interval, 2 * max_interval}

IntervalInit ==
    /\ StoreInit(File(Dump(InitialRecord)), NoFile, NoFile)
    /\ GuardInit /\ DetectorInit /\ ShardInit
    /\ status = [m \in Loops |-> "initializing"]
    /\ running = [m \in Loops |-> FALSE]
    /\ consecutive_failures = [m \in Loops |-> 0]
    /\ sampling_interval \in [Loops -> InitialIntervals]
    /\ stats = [m \in Loops |-> [samples_collected |-> 0, updates_written |-> 0,
                                 errors |-> 0, last_sample_time |-> 0,
                                 last_update_time |-> 0]]
    /\ lpc = [m \in Loops |-> "new"]
    /\ iters = [m \in Loops |-> 0]
    /\ detected = [m \in Loops |-> <<>>]

IntervalSpec == IntervalInit /\ [][SensorNext]_vars

(***************************************************************************)
(* The Repairer (AAVRepairer.repair): four strategies in order, each of    *)
(* them reading and writing the primary file with calls of its own, except *)
(* partial recovery, which goes through AAVFile.create_empty.              *)
(***************************************************************************)
\* f.read() in text mode raises UnicodeDecodeError on bytes that are not text
Readable(text) == \A i \in 1 .. Len(text) : ~(text[i].t = "bad" /\ text[i].k = "binary")

\* _apply_toml_fixes: True -> true and None -> "" (a trailing comma has no token here)
ApplyFixes(text) ==
    [i \in 1 .. Len(text) |->
        IF text[i].t = "kv" /\ text[i].v = PyTrue THEN KV(text[i].k, BoolTrue)
        ELSE IF text[i].t = "kv" /\ text[i].v = PyNone THEN KV(text[i].k, Str(""))
        ELSE text[i]]

\* re.search(key = "..."): the first quoted, non-empty value of the key, or "unknown"
FirstQuoted(text, key) ==
    LET hits == {i \in 1 .. Len(text) :
                   /\ text[i].t = "kv" /\ text[i].k = key
                   /\ text[i].v[1] = "str" /\ text[i].v[2] # ""}
    IN  IF hits = {} THEN Str("unknown")
        ELSE text[CHOOSE i \in hits : \A j \in hits : i <= j].v

\* file_path.stem of the one record file
Stem == Str("a1")

\* _repair_emergency_rebuild: emergency_data
EmergencySkeleton(asset_id, timestamp) ==
    [metadata |-> [format_version |-> Str("2.0.0"),
                   asset_id |-> asset_id,
                   last_updated |-> timestamp,
                   schema_version |-> Str("2.0"),
                   emergency_rebuild |-> BoolTrue,
                   rebuild_reason |-> Str("Complete file corruption")],
     asset |-> [id |-> asset_id,
                type |-> Str("unknown"),
                name |-> asset_id,
                status |-> Str("unknown"),
                tags |-> EmptyList],
     compute |-> [last_updated |-> timestamp, sensor_status |-> Str("restarting")],
     memory |-> [last_updated |-> timestamp, sensor_status |-> Str("restarting")],
     storage |-> [last_updated |-> timestamp, sensor_status |-> Str("restarting")],
     network |-> [last_updated |-> timestamp, sensor_status |-> Str("restarting")],
     services |-> [last_updated |-> timestamp, sensor_status |-> Str("restarting")]]

\* a strategy returns RepairResult(success=True): repair returns it
Repaired(g, strategy) ==
    /\ gpc' = [gpc EXCEPT ![g] = "done"]
    /\ gres' = [gres EXCEPT ![g] = [success |-> TRUE, repair_strategy |-> strategy]]
    /\ UNCHANGED gval

\* a strategy has failed: repair goes on to the next one
NextStrategy(g, to) ==
    /\ gpc' = [gpc EXCEPT ![g] = to]
    /\ UNCHANGED <<gres, gval>>

\* open(file_path, 'w'): the file is cut to length zero where it lies
OpenPrimaryForWriting(g) ==
    /\ IF Exists("primary")
       THEN /\ fd' = [fd EXCEPT ![g] = names["primary"]]
            /\ names' = names
            /\ inodes' = [inodes EXCEPT ![names["primary"]] = EmptyText]
       ELSE /\ fd' = [fd EXCEPT ![g] = NewInode(names, fd)]
            /\ names' = [names EXCEPT !["primary"] = NewInode(names, fd)]
            /\ inodes' = inodes

\* the text reaches the open file and the file is closed
WriteAndClose(g, text) ==
    /\ fd' = [fd EXCEPT ![g] = 0]
    /\ inodes' = Sweep(names, fd', [inodes EXCEPT ![fd[g]] = Overlay(@, text)])
    /\ UNCHANGED names

\* a chain whose list of strategies begins with backup_restore
Repair_BackupFirst(g) ==
    /\ gpc[g] = "idle"
    /\ pc[g] = "idle"
    /\ IF ~Exists("primary")
       THEN /\ gpc' = [gpc EXCEPT ![g] = "done"]
            /\ gres' = [gres EXCEPT ![g] = [success |-> FALSE, repair_strategy |-> "none"]]
       ELSE /\ gpc' = [gpc EXCEPT ![g] = "backup_check"]
            /\ gres' = [gres EXCEPT ![g] = [success |-> FALSE, repair_strategy |-> ""]]
    /\ UNCHANGED <<gbuf, gval, storeVars, sensorVars>>

\* repair(file_path): a missing file is not repaired
Repair(g) ==
    /\ gpc[g] = "idle"
    /\ pc[g] = "idle"
    /\ IF ~Exists("primary")
       THEN /\ gpc' = [gpc EXCEPT ![g] = "done"]
            /\ gres' = [gres EXCEPT ![g] = [success |-> FALSE, repair_strategy |-> "none"]]
       ELSE /\ gpc' = [gpc EXCEPT ![g] = "syntax_read"]
            /\ gres' = [gres EXCEPT ![g] = [success |-> FALSE, repair_strategy |-> ""]]
    /\ UNCHANGED <<gbuf, gval, storeVars, sensorVars>>

\* what a step of the Repairer's own file access leaves alone
RepairFrame == <<now, pc, op, arg, data, ret, result, lock, calls, snap, prev,
                 committed, sensorVars>>

\* _repair_toml_syntax: read the file, apply the fixes, test with toml.loads
SyntaxRead(g) ==
    /\ gpc[g] = "syntax_read"
    /\ LET content == FileOf("primary") IN
         IF content.exists /\ Readable(content.text)
               /\ Parse(ApplyFixes(content.text)).ok
         THEN /\ gbuf' = [gbuf EXCEPT ![g] = ApplyFixes(content.text)]
              /\ NextStrategy(g, "syntax_open")
         ELSE /\ NextStrategy(g, "backup_check")
              /\ UNCHANGED gbuf
    /\ UNCHANGED <<names, inodes, fd, RepairFrame>>

\* _repair_toml_syntax: open(file_path, 'w')
SyntaxOpen(g) ==
    /\ gpc[g] = "syntax_open"
    /\ OpenPrimaryForWriting(g)
    /\ NextStrategy(g, "syntax_write")
    /\ UNCHANGED <<gbuf, RepairFrame>>

\* _repair_toml_syntax: f.write(fixed_content), close, success
SyntaxWrite(g) ==
    /\ gpc[g] = "syntax_write"
    /\ WriteAndClose(g, gbuf[g])
    /\ Repaired(g, "toml_syntax_fix")
    /\ UNCHANGED <<gbuf, RepairFrame>>

\* _repair_from_backup: the backup must exist and load as TOML
BackupCheck(g) ==
    /\ gpc[g] = "backup_check"
    /\ LET b == FileOf("backup") IN
         IF b.exists /\ Readable(b.text) /\ Parse(b.text).ok
         THEN NextStrategy(g, "backup_open")
         ELSE NextStrategy(g, "partial_read")
    /\ UNCHANGED <<gbuf, names, inodes, fd, RepairFrame>>

\* shutil.copy2(backup_path, file_path): the destination is opened for writing
BackupOpen(g) ==
    /\ gpc[g] = "backup_open"
    /\ IF Exists("backup")
       THEN /\ OpenPrimaryForWriting(g)
            /\ NextStrategy(g, "backup_copy")
       ELSE /\ NextStrategy(g, "partial_read")
            /\ UNCHANGED <<names, inodes, fd>>
    /\ UNCHANGED <<gbuf, RepairFrame>>

\* shutil.copy2: the backup's bytes are copied over, success
BackupCopy(g) ==
    /\ gpc[g] = "backup_copy"
    /\ WriteAndClose(g, FileOf("backup").text)
    /\ Repaired(g, "backup_restore")
    /\ UNCHANGED <<gbuf, RepairFrame>>

\* _repair_partial_data: read the file, find asset_id and type, call create_empty
PartialRead(g) ==
    /\ gpc[g] = "partial_read"
    /\ LET content == FileOf("primary") IN
         IF content.exists /\ Readable(content.text)
         THEN /\ StartCreate(g, FirstQuoted(content.text, "asset_id"),
                             FirstQuoted(content.text, "type"), None)
              /\ NextStrategy(g, "partial_write")
         ELSE /\ NextStrategy(g, "emergency_open")
              /\ UNCHANGED storeVars
    /\ UNCHANGED <<gbuf, sensorVars>>

\* create_empty's write is under way
PartialStep(g) ==
    /\ gpc[g] = "partial_write"
    /\ StoreStep(g) \/ W_Fault(g)
    /\ UNCHANGED <<sensorVars, guardVars>>

\* create_empty has returned (success) or raised (on to the last strategy)
PartialDone(g) ==
    /\ gpc[g] = "partial_write"
    /\ pc[g] = "idle"
    /\ IF result[g] = "ok"
       THEN Repaired(g, "partial_recovery")
       ELSE NextStrategy(g, "emergency_open")
    /\ UNCHANGED <<gbuf, storeVars, sensorVars>>

\* _repair_emergency_rebuild: build emergency_data, open(file_path, 'w')
EmergencyOpen(g) ==
    /\ gpc[g] = "emergency_open"
    /\ gbuf' = [gbuf EXCEPT ![g] = Dump(EmergencySkeleton(Stem, TsOffZ(now)))]
    /\ OpenPrimaryForWriting(g)
    /\ NextStrategy(g, "emergency_write")
    /\ UNCHANGED RepairFrame

\* _repair_emergency_rebuild: toml.dump(emergency_data, f), close, success
EmergencyWrite(g) ==
    /\ gpc[g] = "emergency_write"
    /\ WriteAndClose(g, gbuf[g])
    /\ Repaired(g, "emergency_rebuild")
    /\ UNCHANGED <<gbuf, RepairFrame>>

RepairStep(g) ==
    \/ Repair(g)
    \/ SyntaxRead(g) \/ SyntaxOpen(g) \/ SyntaxWrite(g)
    \/ BackupCheck(g) \/ BackupOpen(g) \/ BackupCopy(g)
    \/ PartialRead(g) \/ PartialStep(g) \/ PartialDone(g)
    \/ EmergencyOpen(g) \/ EmergencyWrite(g)

(***************************************************************************)
(* A record file that needs repair, a Guardian repairing it, and the       *)
(* Record Store's callers at work on the same file meanwhile.              *)
(***************************************************************************)
\* a Python literal written where TOML wants a value: the syntax fix mends it
FixableText == Dump(InitialRecord) \o <<KV("emergency_rebuild", PyTrue)>>
\* a file cut off in the middle of a line, the asset_id still in it
TruncatedText == SubSeq(Dump(InitialRecord), 1, 3) \o <<Bad("truncated")>>
\* bytes that are not text
BinaryText == <<Bad("binary")>>

DamagedTexts == {FixableText, TruncatedText, BinaryText, EmptyText}

RepairInit ==
    \E text \in DamagedTexts, backup \in {NoFile, File(Dump(InitialRecord))} :
        StoreInit(File(text), backup, NoFile) /\ SensorInit /\ GuardInit /\ DetectorInit /\ ShardInit

RepairSteps ==
    \/ \E g \in Guardians : RepairStep(g)
    \/ /\ \E p \in Readers : StartRead(p) \/ StoreStep(p)
       /\ UNCHANGED <<sensorVars, guardVars>>
    \/ /\ \E p \in {"s1"} : SensorCall(p) \/ StoreStep(p)
       /\ UNCHANGED <<sensorVars, guardVars>>

RepairNext == RepairSteps /\ UNCHANGED <<detectorVars, shardVars>>

RepairSpec == RepairInit /\ [][RepairNext]_vars

(***************************************************************************)
(* The Validator (AAVValidator.validate) on the record file: the checks    *)
(* that can make the result invalid.  Freshness, sensor sections and       *)
(* sensor health only add warnings.                                        *)
(***************************************************************************)
\* what one check appends to the result; raises when it ends in an exception
\* that validate does not catch
Found(errors, warnings, raises) ==
    [errors |-> errors, warnings |-> warnings, raises |-> raises]

\* _validate_file_exists: the file is there and one character can be read
validate_file_exists(f) ==
    IF ~f.exists THEN Found({<<"File does not exist", "">>}, {}, FALSE)
    ELSE IF ~Readable(f.text) THEN Found({<<"Cannot read file", "">>}, {}, FALSE)
    ELSE Found({}, {}, FALSE)

\* _validate_toml_syntax: toml.load
validate_toml_syntax(f) == Parse(f.text)

\* _validate_required_sections: one error that names every missing section
validate_required_sections(d) ==
    Found({<<"Missing required sections", s>> : s \in Blocks \ DOMAIN d}, {}, FALSE)

\* version.startswith('2.')
StartsWith2(v) == v[2] \in {"2.0.0", "2.0", "2.1.0"}

\* _validate_metadata: the three fields, looked at only if there is a metadata
\* block; format_version.startswith is called whatever the type of the value
validate_metadata(d) ==
    IF "metadata" \notin DOMAIN d THEN Found({}, {}, FALSE)
    ELSE LET m == d["metadata"]
             has == "format_version" \in DOMAIN m
         IN  Found({<<"Missing metadata fields", k>> :
                       k \in {"format_version", "asset_id", "last_updated"} \ DOMAIN m},
                   IF has /\ IsStr(m["format_version"]) /\ ~StartsWith2(m["format_version"])
                   THEN {<<"Unexpected format version", "metadata">>} ELSE {},
                   has /\ ~IsStr(m["format_version"]))

valid_types ==
    {Str("container"), Str("vm"), Str("pod"), Str("machine"), Str("database"),
     Str("service")}

\* _validate_asset_info: the three fields, looked at only if there is an asset block
validate_asset_info(d) ==
    IF "asset" \notin DOMAIN d THEN Found({}, {}, FALSE)
    ELSE LET a == d["asset"] IN
         Found({<<"Missing asset fields", k>> : k \in {"id", "type", "status"} \ DOMAIN a},
               IF "type" \in DOMAIN a /\ a["type"] \notin valid_types
               THEN {<<"Unknown asset type", "asset">>} ELSE {},
               FALSE)

\* a freshness check that appends to errors and clears valid
validate_freshness_AsErrors(d, t) ==
    IF "metadata" \notin DOMAIN d \/ "last_updated" \notin DOMAIN d["metadata"]
    THEN Found({}, {}, FALSE)
    ELSE LET v == d["metadata"]["last_updated"] IN
         Found(IF ~ParsesAsDatetime(v) THEN {<<"Could not validate freshness", "metadata">>}
               ELSE IF t - v[3] > MAX_AGE_SECONDS THEN {<<"File is stale", "metadata">>}
               ELSE {},
               {},
               FALSE)

\* _validate_freshness: a timestamp that cannot be read, or an old one, is a warning
validate_freshness(d, t) ==
    IF "metadata" \notin DOMAIN d \/ "last_updated" \notin DOMAIN d["metadata"]
    THEN Found({}, {}, FALSE)
    ELSE LET v == d["metadata"]["last_updated"] IN
         Found({},
               IF ~ParsesAsDatetime(v) THEN {<<"Could not validate freshness", "metadata">>}
               ELSE IF t - v[3] > MAX_AGE_SECONDS THEN {<<"File is stale", "metadata">>}
               ELSE {},
               FALSE)

\* _validate_sensor_sections: the two fields of every sensor section that is there
validate_sensor_sections(d) ==
    Found({},
          {<<"missing last_updated", s>> :
              s \in {x \in Sections \cap DOMAIN d : "last_updated" \notin DOMAIN d[x]}}
          \cup
          {<<"missing sensor_status", s>> :
              s \in {x \in Sections \cap DOMAIN d : "sensor_status" \notin DOMAIN d[x]}},
          FALSE)

\* _validate_sensor_health: what the sensor_status of one section adds
HealthWarning(s, v) ==
    IF v = Str("unhealthy") THEN {<<"is unhealthy", s>>}
    ELSE IF v = Str("degraded") THEN {<<"is degraded", s>>}
    ELSE IF v \notin {Str("healthy"), Str("initializing"), Str("stopped")}
         THEN {<<"Unknown sensor status", s>>}
    ELSE {}

\* a sensor health check that appends to errors and clears valid
validate_sensor_health_AsErrors(d) ==
    Found(UNION {HealthWarning(s, d[s]["sensor_status"]) :
                    s \in {x \in Sections \cap DOMAIN d : "sensor_status" \in DOMAIN d[x]}},
          {},
          FALSE)

\* _validate_sensor_health
validate_sensor_health(d) ==
    Found({},
          UNION {HealthWarning(s, d[s]["sensor_status"]) :
                    s \in {x \in Sections \cap DOMAIN d : "sensor_status" \in DOMAIN d[x]}},
          FALSE)

\* the ValidationResult of validate(file_path), or raised where it ends in an exception
Result(valid, errors, warnings, raised) ==
    [valid |-> valid, errors |-> errors, warnings |-> warnings, raised |-> raised]

\* validate: six checks on the parsed data, every one of them run
ValidationOfData(d, t) ==
    LET checks == {validate_required_sections(d), validate_metadata(d),
                   validate_asset_info(d), validate_freshness(d, t),
                   validate_sensor_sections(d), validate_sensor_health(d)}
        errors == UNION {c.errors : c \in checks}
    IN  IF \E c \in checks : c.raises THEN Result(FALSE, {}, {}, TRUE)
        ELSE Result(errors = {}, errors, UNION {c.warnings : c \in checks}, FALSE)

\* validate(file_path) at time t: the first two checks end it when they fail
ValidationOf(f, t) ==
    IF validate_file_exists(f).errors # {}
    THEN Result(FALSE, validate_file_exists(f).errors, {}, FALSE)
    ELSE IF ~validate_toml_syntax(f).ok
    THEN Result(FALSE, {<<"Invalid TOML syntax", "">>}, {}, FALSE)
    ELSE ValidationOfData(validate_toml_syntax(f).rec, t)

\* validate(file_path).valid
ValidOnDisk(f) == ValidationOf(f, now).valid

\* AAVValidator.validate, called while no repair is under way
Validate(g) ==
    /\ gpc[g] \in {"idle", "done"}
    /\ gval' = [gval EXCEPT ![g] =
          [called |-> TRUE, stage |-> gpc[g]] @@ ValidationOf(FileOf("primary"), now)]
    /\ UNCHANGED <<gpc, gbuf, gres, storeVars, sensorVars>>

(***************************************************************************)
(* One Guardian alone with a record file in any state: missing, whole, or  *)
(* damaged in one of several ways, with no backup, a whole backup or a     *)
(* damaged one.  It validates, repairs, and validates again.               *)
(***************************************************************************)
\* a Python literal in a file that has lost all but its first table
FragmentText == <<Hdr("metadata"), KV("emergency_rebuild", PyTrue)>>

ChainPrimaries ==
    {NoFile, File(Dump(InitialRecord))} \cup {File(t) : t \in DamagedTexts \cup {FragmentText}}

ChainBackups == {NoFile, File(Dump(InitialRecord)), File(TruncatedText)}

ChainInit ==
    \E primary \in ChainPrimaries, backup \in ChainBackups :
        StoreInit(primary, backup, NoFile) /\ SensorInit /\ GuardInit /\ DetectorInit /\ ShardInit

ChainNext ==
    /\ \E g \in Guardians : RepairStep(g) \/ Validate(g)
    /\ UNCHANGED <<detectorVars, shardVars>>

ChainSpec == ChainInit /\ [][ChainNext]_vars

(***************************************************************************)
(* The same Guardian with a record file that does not parse and has no     *)
(* backup; a .tmp file may lie beside it from an earlier write.            *)
(***************************************************************************)
\* a file cut off before its first complete line
HeadlessText == <<Bad("truncated")>>

CorruptTexts == {FixableText, TruncatedText, BinaryText, FragmentText, HeadlessText}

CorruptInit ==
    \E text \in CorruptTexts, tmp \in {NoFile, File(TruncatedText)} :
        StoreInit(File(text), NoFile, tmp) /\ SensorInit /\ GuardInit /\ DetectorInit /\ ShardInit

CorruptSpec == CorruptInit /\ [][ChainNext]_vars

(***************************************************************************)
(* The Distributed Guardian: total_shards instances over one directory of  *)
(* record files.  An instance takes the assets whose hash falls on it,     *)
(* validates them cycle after cycle, repairs the invalid ones and counts.  *)
(* The digest of an asset id is some number, the same at every call.       *)
(***************************************************************************)
Shards == 0 .. total_shards - 1

\* the record files the directory may hold, by file_path.stem
DirAssets == {"a1", "a2", "a3"}

\* the digest compared with the shard id as it is, not reduced modulo total_shards
should_monitor_Unreduced(k, asset_id) == md5[asset_id] = k

\* should_monitor: hash_value % total_shards == shard_id
should_monitor(k, asset_id) == md5[asset_id] % total_shards = k

\* get_health: the status, from the cumulative repair failures
HealthStatus(failures) ==
    IF failures > 10 THEN "degraded"
    ELSE IF failures > 50 THEN "unhealthy"
    ELSE "healthy"

\* discover_my_assets: glob *.aav, keep the stems this shard monitors
discover_my_assets(k) == {a \in assets_dir : should_monitor(k, a)}

\* start: running, then discover
ShardStart(k) ==
    /\ ~shard_running[k]
    /\ shard_running' = [shard_running EXCEPT ![k] = TRUE]
    /\ my_assets' = [my_assets EXCEPT ![k] = discover_my_assets(k)]
    /\ UNCHANGED <<total_shards, assets_dir, md5, shard_stats, shard_health, monitor>>

\* stop
ShardStop(k) ==
    /\ shard_running[k]
    /\ shard_running' = [shard_running EXCEPT ![k] = FALSE]
    /\ UNCHANGED <<total_shards, assets_dir, md5, my_assets, shard_stats, shard_health,
                   monitor>>

\* _file_integrity_monitor, one asset of the cycle: validate, and repair if the
\* result is invalid (repair_enabled as by default)
IntegrityCheck(k, asset_id, valid, repaired) ==
    /\ shard_running[k]
    /\ asset_id \in my_assets[k]
    /\ shard_stats[k].validations_performed < MaxValidations
    /\ shard_stats' = [shard_stats EXCEPT ![k] =
          [@ EXCEPT !.validations_performed = @ + 1,
                    !.repairs_performed = IF ~valid THEN @ + 1 ELSE @,
                    !.repair_successes = IF ~valid /\ repaired THEN @ + 1 ELSE @,
                    !.repair_failures = IF ~valid /\ ~repaired THEN @ + 1 ELSE @]]
    /\ UNCHANGED <<total_shards, assets_dir, md5, shard_running, my_assets, shard_health,
                   monitor>>

\* get_health: ShardHealth.status; "unknown" when psutil raises
get_health(k, raises) ==
    /\ shard_health' = [shard_health EXCEPT ![k] =
          IF raises THEN "unknown" ELSE HealthStatus(shard_stats[k].repair_failures)]
    /\ shard_health'[k] # shard_health[k]
    /\ UNCHANGED <<total_shards, assets_dir, md5, shard_running, my_assets, shard_stats,
                   monitor>>

ShardFrame == <<storeVars, sensorVars, guardVars, detectorVars>>

\* the shards start and stop, each discovering its assets when it starts
DiscoverSteps == \E k \in Shards : ShardStart(k) \/ ShardStop(k)

DiscoverNext == DiscoverSteps /\ UNCHANGED ShardFrame

\* a shard at work
ShardSteps ==
    \E k \in Shards :
        \/ ShardStart(k)
        \/ ShardStop(k)
        \/ \E a \in DirAssets, valid \in BOOLEAN, repaired \in BOOLEAN :
               IntegrityCheck(k, a, valid, repaired)
        \/ \E raises \in BOOLEAN : get_health(k, raises)

ShardNext == ShardSteps /\ UNCHANGED ShardFrame

\* DistributedGuardian.__init__ for every shard_id of 0 .. total_shards - 1
ShardsCreated(n, dir) ==
    /\ total_shards = n
    /\ assets_dir = dir
    /\ md5 \in [dir -> 0 .. MaxHash]
    /\ shard_running = [k \in 0 .. n - 1 |-> FALSE]
    /\ my_assets = [k \in 0 .. n - 1 |-> {}]
    /\ shard_stats = [k \in 0 .. n - 1 |->
                        [validations_performed |-> 0, repairs_performed |-> 0,
                         repair_successes |-> 0, repair_failures |-> 0]]
    /\ shard_health = [k \in 0 .. n - 1 |-> "none"]
    /\ monitor = [k \in 0 .. n - 1 |-> NotStarted(TRUE)]

ShardSpecInit ==
    /\ StoreInit(File(Dump(InitialRecord)), NoFile, NoFile)
    /\ SensorInit /\ GuardInit /\ DetectorInit
    /\ \E n \in 1 .. MaxShards, dir \in SUBSET DirAssets : ShardsCreated(n, dir)

ShardSpec == ShardSpecInit /\ [][DiscoverNext]_vars

\* one shard over a directory of one record file, followed through many cycles
HealthInit ==
    /\ StoreInit(File(Dump(InitialRecord)), NoFile, NoFile)
    /\ SensorInit /\ GuardInit /\ DetectorInit
    /\ ShardsCreated(1, {"a1"})

HealthSpec == HealthInit /\ [][ShardNext]_vars

(***************************************************************************)
(* One shard followed through start, its two loops and stop.  The record   *)
(* file of asset a1 is the primary file of the store, with its backup, and *)
(* its repair is the Repairer's, run in a thread of the executor; of the   *)
(* other assets only the id is known: what validate and repair make of     *)
(* their files is left open.                                               *)
(***************************************************************************)
LoopAssets == {"a1", "a2"}

\* the asset whose record file is the primary file, and the thread that repairs it
RealAsset == "a1"
RepairerOf(k) == "g1"

\* validator.validate(aav_file): valid, invalid, or an exception
Outcomes(a) ==
    IF a = RealAsset
    THEN LET r == ValidationOf(FileOf("primary"), now)
         IN  {IF r.raised THEN "raises" ELSE IF r.valid THEN "valid" ELSE "invalid"}
    ELSE {"valid", "invalid", "raises"}

\* what a step of the shard's own loops leaves alone
LoopFrame == <<total_shards, md5, shard_health>>

\* start: running, discover, then both loops under asyncio.gather
GuardianStart(k) ==
    /\ monitor[k].fim = "off"
    /\ shard_running' = [shard_running EXCEPT ![k] = TRUE]
    /\ my_assets' = [my_assets EXCEPT ![k] = discover_my_assets(k)]
    /\ monitor' = [monitor EXCEPT ![k] = [@ EXCEPT !.fim = "top", !.smon = "top"]]
    /\ UNCHANGED <<assets_dir, shard_stats, LoopFrame>>

\* a loop that begins its next cycle without looking at self.running
FimTop_IgnoresStop(k) ==
    /\ monitor[k].fim = "top"
    /\ monitor[k].cycles < MaxCycles
    /\ monitor' = [monitor EXCEPT ![k] =
          [@ EXCEPT !.fim = "cycle", !.todo = my_assets[k], !.checked = {},
                    !.cycle_dir = assets_dir, !.cycles = @ + 1]]
    /\ UNCHANGED <<assets_dir, shard_running, my_assets, shard_stats, LoopFrame>>

\* _file_integrity_monitor, `while self.running`: a cycle begins over my_assets,
\* or the loop returns
FimTop(k) ==
    /\ monitor[k].fim = "top"
    /\ IF shard_running[k]
       THEN /\ monitor[k].cycles < MaxCycles
            /\ monitor' = [monitor EXCEPT ![k] =
                  [@ EXCEPT !.fim = "cycle", !.todo = my_assets[k], !.checked = {},
                            !.cycle_dir = assets_dir, !.cycles = @ + 1]]
       ELSE monitor' = [monitor EXCEPT ![k] = [@ EXCEPT !.fim = "exited"]]
    /\ UNCHANGED <<assets_dir, shard_running, my_assets, shard_stats, LoopFrame>>

\* a loop that hands the repair to the executor and does not wait for it
FimValidate_NoAwait(k, a, v) ==
    /\ monitor[k].fim = "cycle"
    /\ shard_running[k]
    /\ a \in monitor[k].todo
    /\ v \in Outcomes(a)
    /\ LET repair == v = "invalid" /\ monitor[k].repair_enabled IN
         /\ monitor' = [monitor EXCEPT ![k] =
               [@ EXCEPT !.todo = @ \ {a}, !.checked = @ \cup {a},
                         !.inflight = IF repair THEN @ \cup {a} ELSE @]]
         /\ shard_stats' = [shard_stats EXCEPT ![k] =
               [@ EXCEPT !.validations_performed = IF v = "raises" THEN @ ELSE @ + 1,
                         !.repairs_performed = IF repair THEN @ + 1 ELSE @]]
    /\ UNCHANGED <<assets_dir, shard_running, my_assets, LoopFrame>>

\* a loop that goes to the Repairer whether repair is enabled or not
FimValidate_AlwaysRepairs(k, a, v) ==
    /\ monitor[k].fim = "cycle"
    /\ shard_running[k]
    /\ a \in monitor[k].todo
    /\ v \in Outcomes(a)
    /\ LET repair == v = "invalid" IN
         /\ monitor' = [monitor EXCEPT ![k] =
               [@ EXCEPT !.todo = @ \ {a}, !.checked = @ \cup {a},
                         !.inflight = IF repair THEN @ \cup {a} ELSE @,
                         !.fim = IF repair THEN "repairing" ELSE @]]
         /\ shard_stats' = [shard_stats EXCEPT ![k] =
               [@ EXCEPT !.validations_performed = IF v = "raises" THEN @ ELSE @ + 1,
                         !.repairs_performed = IF repair THEN @ + 1 ELSE @]]
    /\ UNCHANGED <<assets_dir, shard_running, my_assets, LoopFrame>>

\* the body of the for loop for one asset: validate and count; an invalid file
\* goes to _attempt_repair, which counts and awaits the executor; an exception
\* of validate is logged
FimValidate(k, a, v) ==
    /\ monitor[k].fim = "cycle"
    /\ shard_running[k]
    /\ a \in monitor[k].todo
    /\ v \in Outcomes(a)
    /\ LET repair == v = "invalid" /\ monitor[k].repair_enabled IN
         /\ monitor' = [monitor EXCEPT ![k] =
               [@ EXCEPT !.todo = @ \ {a}, !.checked = @ \cup {a},
                         !.inflight = IF repair THEN @ \cup {a} ELSE @,
                         !.fim = IF repair THEN "repairing" ELSE @]]
         /\ shard_stats' = [shard_stats EXCEPT ![k] =
               [@ EXCEPT !.validations_performed = IF v = "raises" THEN @ ELSE @ + 1,
                         !.repairs_performed = IF repair THEN @ + 1 ELSE @]]
    /\ UNCHANGED <<assets_dir, shard_running, my_assets, LoopFrame>>

\* the for loop ends, by exhaustion or by `if not self.running: break`, and the
\* loop goes to asyncio.sleep(validation_interval)
FimBreak(k) ==
    /\ monitor[k].fim = "cycle"
    /\ monitor[k].todo = {} \/ ~shard_running[k]
    /\ monitor' = [monitor EXCEPT ![k] = [@ EXCEPT !.fim = "sleep"]]
    /\ UNCHANGED <<assets_dir, shard_running, my_assets, shard_stats, LoopFrame>>

\* a loop that counts the repairs that succeed and forgets those that fail
FimRepaired_CountsSuccessOnly(k, success) ==
    /\ monitor[k].fim = "repairing"
    /\ IF RealAsset \in monitor[k].inflight
       THEN /\ gpc[RepairerOf(k)] = "done"
            /\ success = gres[RepairerOf(k)].success
            /\ gpc' = [gpc EXCEPT ![RepairerOf(k)] = "idle"]
       ELSE UNCHANGED gpc
    /\ monitor' = [monitor EXCEPT ![k] = [@ EXCEPT !.fim = "cycle", !.inflight = {}]]
    /\ shard_stats' = [shard_stats EXCEPT ![k] =
          [@ EXCEPT !.repair_successes = IF success THEN @ + 1 ELSE @]]
    /\ UNCHANGED <<gbuf, gres, gval>>
    /\ UNCHANGED <<assets_dir, shard_running, my_assets, LoopFrame>>

\* the executor's result reaches the loop: repair_successes or repair_failures
FimRepaired(k, success) ==
    /\ monitor[k].fim = "repairing"
    /\ IF RealAsset \in monitor[k].inflight
       THEN /\ gpc[RepairerOf(k)] = "done"
            /\ success = gres[RepairerOf(k)].success
            /\ gpc' = [gpc EXCEPT ![RepairerOf(k)] = "idle"]
       ELSE UNCHANGED gpc
    /\ monitor' = [monitor EXCEPT ![k] = [@ EXCEPT !.fim = "cycle", !.inflight = {}]]
    /\ shard_stats' = [shard_stats EXCEPT ![k] =
          [@ EXCEPT !.repair_successes = IF success THEN @ + 1 ELSE @,
                    !.repair_failures = IF success THEN @ ELSE @ + 1]]
    /\ UNCHANGED <<gbuf, gres, gval>>
    /\ UNCHANGED <<assets_dir, shard_running, my_assets, LoopFrame>>

\* asyncio.sleep(validation_interval) returns
FimWake(k) ==
    /\ monitor[k].fim = "sleep"
    /\ monitor' = [monitor EXCEPT ![k] = [@ EXCEPT !.fim = "top"]]
    /\ UNCHANGED <<assets_dir, shard_running, my_assets, shard_stats, LoopFrame>>

\* _self_monitor, `while self.running`: one sample of the process, or the loop
\* returns
SmonTop(k) ==
    /\ monitor[k].smon = "top"
    /\ IF shard_running[k]
       THEN /\ monitor[k].samples < MaxCycles
            /\ monitor' = [monitor EXCEPT ![k] =
                  [@ EXCEPT !.smon = "sleep", !.samples = @ + 1]]
       ELSE monitor' = [monitor EXCEPT ![k] = [@ EXCEPT !.smon = "exited"]]
    /\ UNCHANGED <<assets_dir, shard_running, my_assets, shard_stats, LoopFrame>>

\* asyncio.sleep(300) returns
SmonWake(k) ==
    /\ monitor[k].smon = "sleep"
    /\ monitor' = [monitor EXCEPT ![k] = [@ EXCEPT !.smon = "top"]]
    /\ UNCHANGED <<assets_dir, shard_running, my_assets, shard_stats, LoopFrame>>

\* somebody creates the record file of a new asset in the directory
CreateAsset(a) ==
    /\ a \in LoopAssets \ (assets_dir \cup {RealAsset})
    /\ assets_dir' = assets_dir \cup {a}
    /\ UNCHANGED <<shard_running, my_assets, shard_stats, monitor, LoopFrame>>

\* the shard that is followed
Followed == {0}

GuardianSteps ==
    \/ /\ \E k \in Followed :
              \/ GuardianStart(k)
              \/ ShardStop(k)
              \/ FimTop(k)
              \/ \E a \in LoopAssets, v \in {"valid", "invalid", "raises"} :
                    FimValidate(k, a, v)
              \/ FimBreak(k)
              \/ FimWake(k)
              \/ SmonTop(k)
              \/ SmonWake(k)
              \/ \E a \in LoopAssets : CreateAsset(a)
       /\ UNCHANGED <<storeVars, sensorVars, guardVars, detectorVars>>
    \/ /\ \E k \in Followed, success \in BOOLEAN : FimRepaired(k, success)
       /\ UNCHANGED <<storeVars, sensorVars, detectorVars>>
    \/ /\ \E k \in Followed :
              /\ RealAsset \in monitor[k].inflight
              /\ RepairStep(RepairerOf(k))
       /\ UNCHANGED <<detectorVars, shardVars>>

\* the record file of a1: whole, without a section, not text, or not there
GuardianPrimaries ==
    {NoFile, File(Dump(InitialRecord)), File(Dump(Without(InitialRecord, "network"))),
     File(BinaryText)}

\* DistributedGuardian(0, n, dir, repair_enabled=enabled)
GuardianInit ==
    /\ \E primary \in GuardianPrimaries : StoreInit(primary, NoFile, NoFile)
    /\ SensorInit /\ GuardInit /\ DetectorInit
    /\ total_shards \in {1, 2}
    /\ assets_dir \in {(IF Exists("primary") THEN {RealAsset} ELSE {}) \cup others :
                          others \in SUBSET (LoopAssets \ {RealAsset})}
    /\ md5 \in [LoopAssets -> {0, 1}]
    /\ shard_running = [k \in Shards |-> FALSE]
    /\ my_assets = [k \in Shards |-> {}]
    /\ shard_stats = [k \in Shards |->
                        [validations_performed |-> 0, repairs_performed |-> 0,
                         repair_successes |-> 0, repair_failures |-> 0]]
    /\ shard_health = [k \in Shards |-> "none"]
    /\ \E enabled \in BOOLEAN : monitor = [k \in Shards |-> NotStarted(enabled)]

GuardianSpec == GuardianInit /\ [][GuardianSteps]_vars

\* the steps of the validation loop that need no more than the event loop to
\* happen (the test of self.running, the end of a sleep or of an await), those
\* of the self-monitor loop, and those of the executor's thread
FimRun ==
    \E k \in Followed :
        \/ /\ \/ FimTop(k)
              \/ FimBreak(k)
              \/ FimWake(k)
           /\ UNCHANGED <<storeVars, sensorVars, guardVars, detectorVars>>
        \/ /\ \E success \in BOOLEAN : FimRepaired(k, success)
           /\ UNCHANGED <<storeVars, sensorVars, detectorVars>>

SmonRun ==
    \E k \in Followed :
        /\ SmonTop(k) \/ SmonWake(k)
        /\ UNCHANGED <<storeVars, sensorVars, guardVars, detectorVars>>

RepairRun ==
    \E k \in Followed :
        /\ RealAsset \in monitor[k].inflight
        /\ RepairStep(RepairerOf(k))
        /\ UNCHANGED <<detectorVars, shardVars>>

\* DistributedGuardian(0, 1, dir, repair_enabled=enabled): the only shard
StopInit ==
    /\ GuardianInit
    /\ total_shards = 1
    /\ md5 = [a \in LoopAssets |-> 0]

\* the executor's thread has a repair to go on with: ENABLED RepairRun
RepairBusy ==
    \E k \in Followed :
        RealAsset \in monitor[k].inflight /\ gpc[RepairerOf(k)] # "done"

\* the event loop runs every task that is ready, a sleep ends, and the
\* executor's thread goes on: weak fairness of each, that of the thread with
\* its enabling condition written out
GuardianFairSpec ==
    /\ StopInit /\ [][GuardianSteps]_vars
    /\ WF_vars(FimRun) /\ WF_vars(SmonRun)
    /\ ([]<>(~RepairBusy) \/ []<><<RepairRun>>_vars)

(***************************************************************************)
(* The Change Detector.  A metric value is a number, held in tenths (45.0  *)
(* is 450), a string, or None.                                             *)
(***************************************************************************)
Num(n) == [t |-> "num", n |-> n, s |-> ""]
Sym(x) == [t |-> "str", n |-> 0, s |-> x]
NoValue == [t |-> "none", n |-> 0, s |-> ""]

Tenths(x) == 10 * x
Abs(x) == IF x < 0 THEN -x ELSE x

\* the words `in metric_name.lower()` finds in each metric name
Words(name) ==
    CASE name = "cpu_percent" -> {"cpu", "percent"}
      [] name = "memory_percent" -> {"memory", "percent"}
      [] name = "disk_percent" -> {"disk", "percent"}
      [] name = "connections" -> {"connection"}
      [] name = "response_time" -> {"response_time"}
      [] name = "status" -> {"status"}
      [] name = "health" -> {"health"}
      [] name = "CPU_Disk_Percent" -> {"cpu", "disk", "percent"}
      [] name = "memory_disk_percent" -> {"memory", "disk", "percent"}
      [] name = "storage_connection_percent" -> {"storage", "connection", "percent"}
      [] name = "connection_latency" -> {"connection", "latency"}
      [] name = "latency_status" -> {"latency", "status"}
      [] name = "state_count" -> {"state"}
      [] name = "health_score" -> {"health"}
      [] OTHER -> {}

\* _is_significant_change that takes a response time halved for a change too
IsSignificantChange_EitherWay(name, previous, current) ==
    LET w == Words(name)
        delta == Abs(current.n - previous.n)
    IN  IF previous = NoValue \/ current = NoValue THEN previous # current
        ELSE IF {"cpu", "percent"} \subseteq w
             THEN delta >= Tenths(threshold_cpu_percent)
        ELSE IF {"memory", "percent"} \subseteq w
             THEN delta >= Tenths(threshold_memory_percent)
        ELSE IF ("storage" \in w \/ "disk" \in w) /\ "percent" \in w
             THEN delta >= Tenths(threshold_storage_percent)
        ELSE IF "connection" \in w
             THEN delta >= Tenths(threshold_network_connections)
        ELSE IF "response_time" \in w \/ "latency" \in w
             THEN IF previous.n = 0 THEN current.n > 0
                  ELSE \/ current.n >= response_time_multiplier * previous.n
                       \/ previous.n >= response_time_multiplier * current.n
        ELSE IF "status" \in w \/ "state" \in w THEN previous # current
        ELSE IF "health" \in w THEN previous # current
        ELSE IF current.t # "num" THEN previous # current
        ELSE IF previous.n = 0 THEN current.n # 0
        ELSE 100 * delta >= default_percent_change * Abs(previous.n)

\* _is_significant_change: the first rule that matches the metric name
IsSignificantChange(name, previous, current) ==
    LET w == Words(name)
        delta == Abs(current.n - previous.n)
    IN  IF previous = NoValue \/ current = NoValue THEN previous # current
        ELSE IF {"cpu", "percent"} \subseteq w
             THEN delta >= Tenths(threshold_cpu_percent)
        ELSE IF {"memory", "percent"} \subseteq w
             THEN delta >= Tenths(threshold_memory_percent)
        ELSE IF ("storage" \in w \/ "disk" \in w) /\ "percent" \in w
             THEN delta >= Tenths(threshold_storage_percent)
        ELSE IF "connection" \in w
             THEN delta >= Tenths(threshold_network_connections)
        ELSE IF "response_time" \in w \/ "latency" \in w
             THEN IF previous.n = 0 THEN current.n > 0
                  ELSE current.n >= response_time_multiplier * previous.n
        ELSE IF "status" \in w \/ "state" \in w THEN previous # current
        ELSE IF "health" \in w THEN previous # current
        ELSE IF current.t # "num" THEN previous # current
        ELSE IF previous.n = 0 THEN current.n # 0
        ELSE 100 * delta >= default_percent_change * Abs(previous.n)

\* the fallback that waits for more than max_age
ShouldUpdateByTime_Strict(name) ==
    name \notin DOMAIN last_update_time \/ now - last_update_time[name] > max_age

\* _should_update_by_time(metric_name, max_age=300)
ShouldUpdateByTime(name) ==
    name \notin DOMAIN last_update_time \/ now - last_update_time[name] >= max_age

\* MetricHistory.add on a deque(maxlen=60)
HistoryAdd(h, v) ==
    LET push(q, x) == IF Len(q) >= history_maxlen THEN Append(Tail(q), x)
                      ELSE Append(q, x)
    IN  [values |-> push(h.values, v), timestamps |-> push(h.timestamps, now)]

NewHistory == [values |-> <<>>, timestamps |-> <<>>]

\* _record_value: the value, the time and, for a number, one more history entry
RecordValue(name, value) ==
    /\ previous_values' = (name :> value) @@ previous_values
    /\ last_update_time' = (name :> now) @@ last_update_time
    /\ history' =
         IF value.t = "num"
         THEN (name :> HistoryAdd(IF name \in DOMAIN history THEN history[name]
                                  ELSE NewHistory, value.n)) @@ history
         ELSE history

LogEntry(o, name, value, force, r) ==
    [op |-> o, metric |-> name, value |-> value, force |-> force, ret |-> r, at |-> now]

\* what a call of the detector leaves alone
DetectorFrame == <<storeVars, sensorVars, guardVars, shardVars>>

\* should_update that remembers every value it is shown
should_update_RecordsAlways(name, value, force) ==
    /\ Len(cd_log) < MaxDetectorCalls
    /\ LET r == \/ force
                \/ name \notin DOMAIN previous_values
                \/ IsSignificantChange(name, previous_values[name], value)
                \/ ShouldUpdateByTime(name)
       IN  /\ cd_log' = Append(cd_log, LogEntry("should_update", name, value, force, r))
           /\ IF force
              THEN UNCHANGED <<previous_values, history, last_update_time>>
              ELSE RecordValue(name, value)
    /\ UNCHANGED DetectorFrame

\* should_update(metric_name, current_value, force)
should_update(name, value, force) ==
    /\ Len(cd_log) < MaxDetectorCalls
    /\ IF force
       THEN /\ cd_log' = Append(cd_log, LogEntry("should_update", name, value, force, TRUE))
            /\ UNCHANGED <<previous_values, history, last_update_time>>
       ELSE IF name \notin DOMAIN previous_values
       THEN /\ RecordValue(name, value)
            /\ cd_log' = Append(cd_log, LogEntry("should_update", name, value, force, TRUE))
       ELSE IF IsSignificantChange(name, previous_values[name], value)
       THEN /\ RecordValue(name, value)
            /\ cd_log' = Append(cd_log, LogEntry("should_update", name, value, force, TRUE))
       ELSE IF ShouldUpdateByTime(name)
       THEN /\ RecordValue(name, value)
            /\ cd_log' = Append(cd_log, LogEntry("should_update", name, value, force, TRUE))
       ELSE /\ cd_log' = Append(cd_log, LogEntry("should_update", name, value, force, FALSE))
            /\ UNCHANGED <<previous_values, history, last_update_time>>
    /\ UNCHANGED DetectorFrame

\* update(metric_name, value): record without any test
update(name, value) ==
    /\ Len(cd_log) < MaxDetectorCalls
    /\ RecordValue(name, value)
    /\ cd_log' = Append(cd_log, LogEntry("update", name, value, FALSE, FALSE))
    /\ UNCHANGED DetectorFrame

\* reset(): everything recorded is forgotten
reset ==
    /\ Len(cd_log) < MaxDetectorCalls
    /\ previous_values # <<>>
    /\ previous_values' = <<>>
    /\ history' = <<>>
    /\ last_update_time' = <<>>
    /\ cd_log' = Append(cd_log, LogEntry("reset", "", NoValue, FALSE, FALSE))
    /\ UNCHANGED DetectorFrame

\* time.time() moves on, by d seconds
Tick(d) ==
    /\ now + d <= MaxTime
    /\ now' = now + d
    /\ UNCHANGED <<names, inodes, pc, op, arg, data, ret, result, fd, lock, calls,
                   snap, prev, committed>>
    /\ UNCHANGED <<sensorVars, guardVars, detectorVars, shardVars>>

(***************************************************************************)
(* One detector, shown a CPU percentage and a status at moments of the     *)
(* caller's choosing.                                                      *)
(***************************************************************************)
Metrics == {"cpu_percent", "status"}

\* 45.0, 49.9 and 50.0 per cent; a status word or None
ValuesOf(name) ==
    IF name = "status" THEN {Sym("ok"), Sym("failed"), NoValue}
    ELSE {Num(450), Num(499), Num(500)}

\* 149 s and 150 s: twice the latter is max_age, one of each is a second short
TickSteps == {max_age \div 2 - 1, max_age \div 2}

DetectorNext ==
    \/ \E name \in Metrics : \E value \in ValuesOf(name) : \E force \in BOOLEAN :
          should_update(name, value, force)
    \/ \E name \in Metrics : \E value \in ValuesOf(name) : update(name, value)
    \/ reset
    \/ \E d \in TickSteps : Tick(d)

DetectorSpec == Init /\ [][DetectorNext]_vars

(***************************************************************************)
(* One detector shown one metric, of any category and of names that more   *)
(* than one category matches, at moments of the caller's choosing.         *)
(***************************************************************************)
NumericMetrics ==
    {"cpu_percent", "memory_percent", "disk_percent", "connections", "response_time",
     "CPU_Disk_Percent", "memory_disk_percent", "storage_connection_percent",
     "connection_latency", "latency_status", "state_count", "health_score",
     "process_count"}
WordMetrics == {"status", "health", "load_average"}

\* 0, 10.0, 11.0, 15.0 and 20.0; a word, another or None
CategoryValues(name) ==
    IF name \in WordMetrics THEN {Sym("ok"), Sym("failed"), NoValue}
    ELSE {Num(0), Num(100), Num(110), Num(150), Num(200)}

CategoryNext ==
    \/ \E name \in NumericMetrics \cup WordMetrics : \E value \in CategoryValues(name) :
          /\ DOMAIN previous_values \subseteq {name}
          /\ should_update(name, value, FALSE)
    \/ \E d \in TickSteps : Tick(d)

CategorySpec == Init /\ [][CategoryNext]_vars

(***************************************************************************)
(* The Validator on record files of every shape: a whole record with up to *)
(* two things changed in it (a block or a field gone, a field given        *)
(* another value), a missing file, a file that does not parse.  Time       *)
(* passes between the validations.                                         *)
(***************************************************************************)
DropBlock(b) == [kind |-> "drop_block", b |-> b, k |-> "", v |-> None]
DropKey(b, k) == [kind |-> "drop_key", b |-> b, k |-> k, v |-> None]
SetKey(b, k, v) == [kind |-> "set_key", b |-> b, k |-> k, v |-> v]

\* the record with one thing changed
ApplyEdit(rec, e) ==
    IF e.b \notin DOMAIN rec THEN rec
    ELSE CASE e.kind = "drop_block" -> Without(rec, e.b)
           [] e.kind = "drop_key" ->
                [rec EXCEPT ![e.b] = [x \in DOMAIN @ \ {e.k} |-> @[x]]]
           [] OTHER -> [rec EXCEPT ![e.b] = Merge(@, (e.k :> e.v))]

RecordEdits ==
    {DropBlock(b) : b \in Blocks}
    \cup {DropKey("metadata", k) : k \in {"format_version", "asset_id", "last_updated"}}
    \cup {DropKey("asset", k) : k \in {"id", "type", "status"}}
    \cup {DropKey(b, k) : b \in {"compute", "network"}, k \in {"last_updated", "sensor_status"}}
    \cup {SetKey(b, "sensor_status", Str(v)) :
             b \in Sections, v \in {"degraded", "unhealthy", "restarting"}}
    \cup {SetKey("metadata", "format_version", v) : v \in {Str("1.0"), BoolTrue}}
    \cup {SetKey("asset", "type", Str("server")),
          SetKey("metadata", "last_updated", TsOffZ(0))}

ValidatorRecords ==
    {OldRecord} \cup {ApplyEdit(ApplyEdit(OldRecord, e1), e2) : e1, e2 \in RecordEdits}

ValidatorInit ==
    /\ \E primary \in {NoFile, File(BinaryText), File(TruncatedText)}
                         \cup {File(Dump(r)) : r \in ValidatorRecords} :
          StoreInit(primary, NoFile, NoFile)
    /\ SensorInit /\ GuardInit /\ DetectorInit /\ ShardInit

ValidatorNext ==
    \/ /\ \E g \in Guardians : Validate(g)
       /\ UNCHANGED <<detectorVars, shardVars>>
    \/ \E d \in TickSteps : Tick(d)

ValidatorSpec == ValidatorInit /\ [][ValidatorNext]_vars

(***************************************************************************)
(* The Guardian with a record file that parses but that the Validator      *)
(* finds invalid, or a damaged one, and a backup that may be invalid too.  *)
(***************************************************************************)
\* a record without its network section, without metadata.asset_id, without
\* asset.status
InvalidRecords ==
    {Without(InitialRecord, "network"),
     ApplyEdit(InitialRecord, DropKey("metadata", "asset_id")),
     ApplyEdit(InitialRecord, DropKey("asset", "status"))}

InvalidInit ==
    /\ \E primary \in {File(Dump(r)) : r \in InvalidRecords}
                         \cup {File(EmptyText), File(TruncatedText), File(Dump(InitialRecord))},
          backup \in {NoFile, File(Dump(InitialRecord)),
                      File(Dump(Without(InitialRecord, "network")))} :
          StoreInit(primary, backup, NoFile)
    /\ SensorInit /\ GuardInit /\ DetectorInit /\ ShardInit

InvalidSpec == InvalidInit /\ [][ChainNext]_vars

(***************************************************************************)
(* A damaged record file, the Guardian's repair of it, and once the repair *)
(* has returned success a sensor's update_section of any section.          *)
(***************************************************************************)
RepopulateSteps ==
    \/ \E g \in Guardians : RepairStep(g)
    \/ /\ \A g \in Guardians : gpc[g] = "done" /\ gres[g].success
       /\ \E p \in {"s1"} :
              \/ \E section \in Sections :
                    StartUpdate(p, section, SensorPatch(calls[p] + 1, "healthy", now))
              \/ StoreStep(p)
       /\ UNCHANGED <<sensorVars, guardVars>>

RepopulateNext == RepopulateSteps /\ UNCHANGED <<detectorVars, shardVars>>

RepopulateSpec == CorruptInit /\ [][RepopulateNext]_vars

(***************************************************************************)
(* A caller writing records through the Record Store, whole ones and ones  *)
(* without a field or a section, and the Guardian validating the file.     *)
(***************************************************************************)
AgreeInputs ==
    {OldRecord} \cup {ApplyEdit(OldRecord, e) :
                        e \in {DropKey("asset", "status"), DropKey("asset", "id"),
                               DropKey("metadata", "format_version"),
                               DropKey("metadata", "last_updated"),
                               DropKey("compute", "sensor_status"),
                               DropBlock("services")}}

AgreeSteps ==
    \/ /\ \E p \in Clients :
              \/ \E rec \in AgreeInputs, backup \in BOOLEAN : StartWrite(p, rec, backup)
              \/ StoreStep(p)
       /\ UNCHANGED <<sensorVars, guardVars>>
    \/ \E g \in Guardians : Validate(g)

AgreeNext == AgreeSteps /\ UNCHANGED <<detectorVars, shardVars>>

AgreeSpec == SeqInit /\ [][AgreeNext]_vars

(***************************************************************************)
(* Claims about the Record Store under concurrent callers.                 *)
(***************************************************************************)
\* the caller's last call was op o and has returned without error
Returned(p, o) == pc[p] = "idle" /\ op[p] = o /\ result[p] = "ok"

\* C1: every Read that returns a record returns the whole content of the file
\* as it was before some write or as one write produced it: never an empty,
\* truncated or mixed file.
C1_ReadReturnsWholeRecord ==
    \A p \in Procs : Returned(p, "read") => ret[p] \in committed

\* the latest patch of sensor q is in the record
HasPatch(rec, q) ==
    /\ SectionOf(q) \in DOMAIN rec
    /\ \A k \in DOMAIN arg[q].patch :
          k \in DOMAIN rec[SectionOf(q)] /\ rec[SectionOf(q)][k] = arg[q].patch[k]

\* both sensors' UpdateSection calls have returned without error, and each
\* wrote a record read before the other's patch was in the file
BothUpdatedFromStale ==
    /\ \A p \in Sensors : Returned(p, "update")
    /\ ~HasPatch(data["s1"], "s2")
    /\ ~HasPatch(data["s2"], "s1")

FinalRecord == Parse(FileOf("primary").text).rec

Waiting(p) ==
    \/ pc[p] = "r_lock" /\ \E q \in Procs \ {p} : fd[q] = fd[p] /\ lock[q] = "ex"
    \/ pc[p] = "w_lock" /\ \E q \in Procs \ {p} : fd[q] = fd[p] /\ lock[q] # "none"

\* C8: no deadlock.  A lock is held only over the one read or the one write
\* to the .tmp file it was taken for, and a caller that waits for a lock
\* waits for a caller that is not itself waiting.
C8_NoDeadlock ==
    /\ \A p \in Procs : lock[p] # "none" => pc[p] \in {"r_load", "w_dump"} /\ fd[p] # 0
    /\ \A p \in Procs : Waiting(p) =>
          \E q \in Procs \ {p} : fd[q] = fd[p] /\ lock[q] # "none" /\ ~Waiting(q)

C8_Witness ==
    \E p \in Sensors, q \in Readers :
        Waiting(q) /\ fd[p] = fd[q] /\ lock[p] = "ex" /\ names["primary"] = fd[q]

(***************************************************************************)
(* Claims about the Record Store under one caller.                         *)
(***************************************************************************)
\* the caller's call has failed between the writing of the .tmp file and the
\* rename, or the caller has died there
FailedBeforeRename(p) ==
    \/ result[p] = "io" /\ pc[p] \in {"w_except", "idle"}
    \/ pc[p] = "crashed"

\* C3: if Write fails, or the process dies, after the .tmp file was written
\* and before the rename, the primary file is byte for byte what it was
\* before the call.
C3_FailedWriteKeepsPrimary ==
    \A p \in Clients : FailedBeforeRename(p) => FileOf("primary") = snap[p].primary

C3_Witness ==
    \E p \in Clients :
        /\ pc[p] = "idle" /\ op[p] = "write" /\ result[p] = "io"
        /\ snap[p].primary.exists
        /\ Dump(data[p]) # snap[p].primary.text

\* the caller's last call has gone through Write and has returned or raised
WriteReturned(p) ==
    /\ pc[p] = "idle"
    /\ \/ op[p] \in {"write", "create"}
       \/ op[p] = "update" /\ result[p] \notin {"missing", "decode"}

\* C4: after Write returns, with or without an error, there is no .tmp file.
C4_NoTmpAfterWrite ==
    \A p \in Clients : WriteReturned(p) => ~Exists("tmp")

C4_Witness ==
    \E p \in Clients : WriteReturned(p) /\ op[p] = "write" /\ result[p] = "io"

\* the caller's call is a Write of a record that lacks a required block
WritesIncomplete(p) ==
    op[p] = "write" /\ \E b \in Blocks : b \notin DOMAIN data[p]

\* C5: Write of a record that lacks a required block raises an error and
\* leaves the primary file and the backup file as they were.
C5_IncompleteWriteRejected ==
    \A p \in Clients : WritesIncomplete(p) =>
        /\ FileOf("primary") = snap[p].primary
        /\ FileOf("backup") = snap[p].backup
        /\ pc[p] = "idle" => result[p] = "validation"

C5_Witness ==
    \E p \in Clients :
        /\ WritesIncomplete(p) /\ pc[p] = "idle" /\ result[p] = "validation"
        /\ arg[p].backup /\ snap[p].primary.exists
        /\ "services" \notin DOMAIN data[p]

\* the caller has built and written a skeleton with CreateEmpty and has then
\* read the record back
ReadAfterCreate(p) ==
    Returned(p, "read") /\ prev[p].op = "create" /\ prev[p].result = "ok"

\* C6: round trip.  Read after CreateEmpty returns the asset block and the
\* five sections as they were written; of the metadata only last_updated
\* may differ.
C6_RoundTrip ==
    \A p \in Clients : ReadAfterCreate(p) =>
        /\ DOMAIN ret[p] = DOMAIN prev[p].data
        /\ \A b \in DOMAIN ret[p] \ {"metadata"} : ret[p][b] = prev[p].data[b]
        /\ DOMAIN ret[p]["metadata"] = DOMAIN prev[p].data["metadata"]
        /\ \A k \in DOMAIN ret[p]["metadata"] \ {"last_updated"} :
              ret[p]["metadata"][k] = prev[p].data["metadata"][k]

C6_Witness ==
    \E p \in Clients :
        /\ ReadAfterCreate(p)
        /\ ret[p]["asset"]["name"] = Str("x")
        /\ ret[p]["asset"]["type"] = Str("vm")
        /\ ret[p]["metadata"]["last_updated"] # ret[p]["compute"]["last_updated"]


(***************************************************************************)
(* The Sampling Loop's status, under SensorSpec.                           *)
(***************************************************************************)
SensorStatus == {"initializing", "healthy", "degraded", "unhealthy", "stopped"}

AllowedTransitions ==
    {<<"initializing", "healthy">>, <<"healthy", "degraded">>,
     <<"degraded", "healthy">>, <<"degraded", "unhealthy">>}
    \cup {<<s, "stopped">> : s \in SensorStatus}

\* C9: a sensor's status changes only INITIALIZING->HEALTHY, HEALTHY->DEGRADED,
\* DEGRADED->HEALTHY, DEGRADED->UNHEALTHY or (any)->STOPPED; in particular an
\* UNHEALTHY sensor never becomes DEGRADED or HEALTHY while its loop runs
C9_StatusTransitions ==
    [][\A m \in Loops :
         status'[m] # status[m] => <<status[m], status'[m]>> \in AllowedTransitions]_vars

\* stop() has been called on a started loop, or the loop has ended
Halted(m) == lpc[m] # "new" /\ ~running[m]

\* C10: STOPPED is terminal: once stop() has cleared the running flag the status
\* is STOPPED and stays so, no iteration begins, nothing is collected or written,
\* and the loop leaves at its next check of the flag
C10_StoppedIsTerminal ==
    [][\A m \in Loops :
         /\ (running[m] /\ ~running'[m]) => status'[m] = "stopped"
         /\ Halted(m) =>
              /\ ~running'[m]
              /\ status[m] = "stopped" /\ status'[m] = "stopped"
              /\ iters'[m] = iters[m]
              /\ stats'[m] = stats[m]
              /\ calls'[m] = calls[m] /\ pc'[m] = "idle"
              /\ lpc[m] \in {"sleep", "top", "exited"}
              /\ lpc[m] = "top" => lpc'[m] = "exited"]_vars

\* stop() reached a loop that had sampled and written, and the loop has left
C10_Witness ==
    \E m \in Loops :
        /\ lpc[m] = "exited" /\ status[m] = "stopped" /\ ~running[m]
        /\ stats[m].updates_written > 0
        /\ iters[m] < MaxIters

(***************************************************************************)
(* The Repairer beside the Record Store, under RepairSpec.                 *)
(***************************************************************************)
\* the step is the rename of a complete temporary file onto the primary
InstalledByRename ==
    /\ names["tmp"] # 0
    /\ names'["primary"] = names["tmp"]
    /\ names'["tmp"] = 0

\* the Repairer has the primary open for writing and has not yet written it
RepairWriting(g) == gpc[g] \in {"syntax_write", "backup_copy", "emergency_write"}

\* C2: the primary file changes only by the Record Store's atomic write (a whole
\* temporary file renamed onto it), also when the Repairer is what changes it, and
\* so no Read loads a primary that a repair has emptied or half written
C2_RepairThroughStore ==
    [][/\ FileOf("primary")' # FileOf("primary") => InstalledByRename
       /\ \A p \in Procs \ Guardians : \A g \in Guardians :
            ~(pc[p] = "r_load" /\ fd[p] = fd[g] /\ RepairWriting(g))]_vars

(***************************************************************************)
(* Escalation and recovery of the Sampling Loop, under SensorSpec.         *)
(***************************************************************************)
\* the status k consecutive failures lead to, counted from HEALTHY with none
Escalated(k) ==
    IF k >= max_failures THEN "unhealthy"
    ELSE IF k >= degraded_failures THEN "degraded"
    ELSE "healthy"

\* the step ends an iteration of m in failure
FailedIteration(m) ==
    lpc[m] \in {"collect", "process", "updating"} /\ lpc'[m] = "sleep"
        /\ stats'[m].errors = stats[m].errors + 1

\* the step ends an iteration of m in success
SucceededIteration(m) ==
    lpc[m] \in {"process", "updating"} /\ lpc'[m] = "sleep"
        /\ stats'[m].errors = stats[m].errors

\* C11: from HEALTHY with no failure, k failed iterations in a row leave the status
\* HEALTHY for k < 3, DEGRADED for 3 <= k < 5 and UNHEALTHY for k >= 5: each failed
\* iteration of such a run takes the status of k failures to that of k + 1
C11_Escalation ==
    [][\A m \in Loops :
         FailedIteration(m) /\ status[m] = Escalated(consecutive_failures[m])
            => /\ consecutive_failures'[m] = consecutive_failures[m] + 1
               /\ status'[m] = Escalated(consecutive_failures'[m])]_vars

\* five failed iterations from the start, and a sixth
C11_Witness ==
    \E m \in Loops :
        /\ iters[m] = 6 /\ consecutive_failures[m] = 6 /\ stats[m].errors = 6
        /\ status[m] = "unhealthy"

\* C12: a successful iteration sets consecutive_failures to 0 and makes the status
\* HEALTHY exactly when it was DEGRADED; any other status stays as it was
C12_SuccessResets ==
    [][\A m \in Loops :
         SucceededIteration(m)
            => /\ consecutive_failures'[m] = 0
               /\ status'[m] = IF status[m] = "degraded" THEN "healthy" ELSE status[m]]_vars

\* a success after five failures: the count is back to 0, the status still UNHEALTHY
C12_Witness ==
    \E m \in Loops :
        /\ status[m] = "unhealthy" /\ consecutive_failures[m] = 0
        /\ lpc[m] = "sleep" /\ stats[m].errors = 5

(***************************************************************************)
(* The adaptive interval, under IntervalSpec.                              *)
(***************************************************************************)
\* C13: after every completed iteration, whatever the successes and failures and
\* whatever interval the sensor was built with, 0.1 s <= sampling_interval <= 5.0 s
C13_IntervalBounded ==
    \A m \in Loops :
        lpc[m] = "sleep" =>
            min_interval <= sampling_interval[m] /\ sampling_interval[m] <= max_interval

(***************************************************************************)
(* Failures and the end of the Sampling Loop, under SensorSpec.            *)
(***************************************************************************)
\* the loop is inside an iteration
InIteration(m) == lpc[m] \in {"collect", "process", "update", "updating"}

\* the step is the one in which the loop of m ends
LoopEnds(m) == lpc[m] # "exited" /\ lpc'[m] = "exited"

Called == Len(cd_log') = Len(cd_log) + 1 /\ cd_log'[Len(cd_log')].op = "should_update"
Call == cd_log'[Len(cd_log')]

\* the metric of the call was recorded before and its last record is younger than 300 s
RecordedAndFresh(name) ==
    name \in DOMAIN previous_values /\ now - last_update_time[name] < max_age

DetectorUnchanged == UNCHANGED <<previous_values, history, last_update_time>>

\* C15: ShouldUpdate compares with the last recorded value, not the last observed
\* one.  For cpu_percent with threshold 5 and no timeout: the first call returns
\* true; a later call returns true exactly when the value is 5.0 or more away from
\* the recorded value, and a call that returns false leaves recorded value,
\* timestamp and history as they were
C15_ComparesWithRecorded ==
    [][(Called /\ Call.metric = "cpu_percent" /\ ~Call.force) =>
          /\ "cpu_percent" \notin DOMAIN previous_values => Call.ret
          /\ RecordedAndFresh("cpu_percent") =>
               /\ Call.ret = (Abs(Call.value.n - previous_values["cpu_percent"].n)
                                >= Tenths(threshold_cpu_percent))
               /\ ~Call.ret => DetectorUnchanged
               /\ Call.ret => previous_values'["cpu_percent"] = Call.value]_vars

\* 45.0 is recorded, 49.9 is turned down, 50.0 is recorded: 0.1 from the value
\* last seen, 5.0 from the value last recorded
C15_Witness ==
    /\ Len(cd_log) = 3
    /\ \A i \in 1 .. 3 : /\ cd_log[i].op = "should_update" /\ ~cd_log[i].force
                         /\ cd_log[i].metric = "cpu_percent" /\ cd_log[i].at = now
    /\ cd_log[1].value = Num(450) /\ cd_log[1].ret
    /\ cd_log[2].value = Num(499) /\ ~cd_log[2].ret
    /\ cd_log[3].value = Num(500) /\ cd_log[3].ret
    /\ previous_values["cpu_percent"] = Num(500)
    /\ history["cpu_percent"].values = <<450, 500>>

\* C16: the time-based fallback.  Whatever the metric and the value, also a value
\* equal to the recorded one, ShouldUpdate returns true when 300 s or more have
\* passed since the metric was last recorded, and the call records the metric anew
C16_TimeFallback ==
    [][(Called /\ Call.metric \in DOMAIN previous_values
          /\ now - last_update_time[Call.metric] >= max_age) =>
          /\ Call.ret
          /\ ~Call.force => /\ last_update_time'[Call.metric] = now
                            /\ previous_values'[Call.metric] = Call.value]_vars

\* a flat signal: the recorded value again, exactly 300 s later, and true again
C16_Witness ==
    /\ Len(cd_log) = 2
    /\ \A i \in 1 .. 2 : /\ cd_log[i].op = "should_update" /\ ~cd_log[i].force
                         /\ cd_log[i].metric = "cpu_percent"
                         /\ cd_log[i].value = Num(450) /\ cd_log[i].ret
    /\ cd_log[2].at = cd_log[1].at + max_age
    /\ last_update_time["cpu_percent"] = cd_log[2].at

\* the values of the metric's history, none if it has no history
HistoryValues(h, name) == IF name \in DOMAIN h THEN h[name].values ELSE <<>>

\* C17: every call of ShouldUpdate that returns true (first observation, significant
\* change, time fallback or force) leaves the passed value as the recorded value, a
\* refreshed timestamp and, for a number, one more entry in the metric's history
C17_TrueRecords ==
    [][(Called /\ Call.ret) =>
          /\ Call.metric \in DOMAIN previous_values'
          /\ previous_values'[Call.metric] = Call.value
          /\ last_update_time'[Call.metric] = now
          /\ Call.value.t = "num" =>
               HistoryValues(history', Call.metric)
                  = Append(HistoryValues(history, Call.metric), Call.value.n)]_vars

(***************************************************************************)
(* The Repairer's chain of strategies.                                     *)
(***************************************************************************)
\* repair() has returned and validate() has been called on the file it left
RepairedThenValidated(g) ==
    gpc[g] = "done" /\ gval[g].called /\ gval[g].stage = "done"

\* C18: for an existing file that does not parse and has no backup, Repair
\* returns success=true with emergency_rebuild as the reported strategy, and
\* a following Validate of the file returns valid=true
C18_RebuiltAndValid ==
    \A g \in Guardians :
        /\ gpc[g] = "done" =>
              gres[g].success /\ gres[g].repair_strategy = "emergency_rebuild"
        /\ RepairedThenValidated(g) => gval[g].valid

\* C19: whatever the state of the file at the path (the location being
\* writable), Repair returns success=true
C19_RepairNeverFails ==
    \A g \in Guardians : gpc[g] = "done" => gres[g].success

\* the place of each stage of repair() in the list of strategies
StageRank(stage) ==
    CASE stage = "idle" -> 0
      [] stage \in {"syntax_read", "syntax_open", "syntax_write"} -> 1
      [] stage \in {"backup_check", "backup_open", "backup_copy"} -> 2
      [] stage \in {"partial_read", "partial_write"} -> 3
      [] stage \in {"emergency_open", "emergency_write"} -> 4
      [] OTHER -> 5

StrategyAt(stage) ==
    CASE StageRank(stage) = 1 -> "toml_syntax_fix"
      [] StageRank(stage) = 2 -> "backup_restore"
      [] StageRank(stage) = 3 -> "partial_recovery"
      [] StageRank(stage) = 4 -> "emergency_rebuild"
      [] OTHER -> "none"

\* the syntax fix can succeed on the primary as it is: the fixed text parses
SyntaxFixAble ==
    LET c == FileOf("primary") IN
        c.exists /\ Readable(c.text) /\ Parse(ApplyFixes(c.text)).ok

\* the backup restore can succeed: there is a backup and it parses
BackupAble ==
    LET b == FileOf("backup") IN b.exists /\ Readable(b.text) /\ Parse(b.text).ok

\* partial recovery could not succeed: the primary cannot be read as text, or
\* create_empty has raised
PartialFailed(g) == ~Readable(FileOf("primary").text) \/ result[g] # "ok"

\* every strategy before the one that is about to begin was unable to succeed
EarlierUnable(g) ==
    /\ gpc[g] = "backup_check" => ~SyntaxFixAble
    /\ gpc[g] = "partial_read" => ~SyntaxFixAble /\ ~BackupAble
    /\ gpc[g] = "emergency_open" => ~SyntaxFixAble /\ ~BackupAble /\ PartialFailed(g)

\* C20: the strategies are applied in the order syntax fix, backup restore,
\* partial recovery, emergency rebuild; a strategy begins only when every one
\* before it was unable to succeed on the file; the reported strategy is the one
\* whose success ended the chain; after that no strategy runs and the primary
\* file is not modified
C20_FirstSuccessInOrder ==
    [][\A g \in Guardians :
          /\ StageRank(gpc'[g]) >= StageRank(gpc[g])
          /\ EarlierUnable(g)'
          /\ (gpc[g] # "done" /\ gpc'[g] = "done" /\ gres'[g].success) =>
                gres'[g].repair_strategy = StrategyAt(gpc[g])
          /\ gpc[g] = "done" =>
                gpc'[g] = "done" /\ gres'[g] = gres[g] /\ UNCHANGED <<names, inodes>>]_vars

\* the syntax fix has failed, the backup restore has succeeded and ended the
\* chain: the primary holds the backup's text
C20_Witness ==
    \E g \in Guardians :
        /\ gpc[g] = "done" /\ gres[g].success
        /\ gres[g].repair_strategy = "backup_restore"
        /\ FileOf("primary").text = FileOf("backup").text

(***************************************************************************)
(* The Distributed Guardian.                                               *)
(***************************************************************************)
\* every shard has discovered its assets and is at work
AllDiscovered == \A k \in Shards : shard_running[k]

\* C21: for every number of shards and every asset id, should_monitor is true
\* for exactly one shard id of 0 .. total_shards - 1; so over a fixed set of
\* record files the sets discovered by the shards are pairwise disjoint and
\* their union is the full set of asset ids
C21_ShardsPartition ==
    /\ \A a \in assets_dir : Cardinality({k \in Shards : should_monitor(k, a)}) = 1
    /\ AllDiscovered =>
          /\ \A j, k \in Shards : j # k => my_assets[j] \cap my_assets[k] = {}
          /\ UNION {my_assets[k] : k \in Shards} = assets_dir

\* three shards have discovered three record files, and two of them have some
C21_Witness ==
    /\ total_shards = MaxShards /\ assets_dir = DirAssets
    /\ AllDiscovered
    /\ \E j, k \in Shards : j # k /\ my_assets[j] # {} /\ my_assets[k] # {}

\* the classification by cumulative repair failures: healthy up to 10,
\* degraded above 10 and up to 50, unhealthy above 50
Classified(f) ==
    IF f <= 10 THEN "healthy" ELSE IF f <= 50 THEN "degraded" ELSE "unhealthy"

\* C22: every get_health that returns a ShardHealth built from the counters
\* reports healthy when repair_failures <= 10, degraded when it is above 10 and
\* at most 50, unhealthy when it is above 50
C22_HealthByFailures ==
    [][\A k \in Shards :
          (shard_health'[k] # shard_health[k] /\ shard_health'[k] # "unknown") =>
              shard_health'[k] = Classified(shard_stats[k].repair_failures)]_vars

(***************************************************************************)
(* The Validator.                                                          *)
(***************************************************************************)
\* the record file is there and parses: what toml.load makes of it
OnDisk == Parse(FileOf("primary").text).rec
Parses ==
    /\ FileOf("primary").exists /\ Readable(FileOf("primary").text)
    /\ Parse(FileOf("primary").text).ok

\* C23: for a record file that exists and parses, if a required section S is
\* missing, Validate returns valid=false with an error that names S
C23_MissingSectionNamed ==
    \A g \in Guardians :
        (gval[g].called /\ Parses) =>
            \A S \in Blocks \ DOMAIN OnDisk :
                /\ ~gval[g].raised /\ ~gval[g].valid
                /\ <<"Missing required sections", S>> \in gval[g].errors

\* section S of the record on disk reports the sensor status v
Reports(S, v) ==
    /\ S \in DOMAIN OnDisk /\ "sensor_status" \in DOMAIN OnDisk[S]
    /\ OnDisk[S]["sensor_status"] = Str(v)

\* the record on disk is valid but for the sensor status of section S: with
\* that status healthy, validate returns valid=true
OtherwiseValid(S) ==
    ValidationOfData(ApplyEdit(OnDisk, SetKey(S, "sensor_status", Str("healthy"))), now).valid

\* C24: a sensor_status of degraded or unhealthy in a section never makes a
\* record invalid: for an otherwise valid record Validate returns valid=true
\* and a warning that names the section
C24_HealthOnlyWarns ==
    \A g \in Guardians :
        (gval[g].called /\ Parses) =>
            \A S \in Sections : \A v \in {"degraded", "unhealthy"} :
                (Reports(S, v) /\ OtherwiseValid(S)) =>
                    /\ gval[g].valid
                    /\ \E w \in gval[g].warnings : w[2] = S /\ w[1] = "is " \o v

\* a record with a degraded compute sensor and an unhealthy network sensor has
\* been validated: valid, with the two warnings
C24_Witness ==
    \E g \in Guardians :
        /\ gval[g].called /\ Parses /\ gval[g].valid
        /\ Reports("compute", "degraded") /\ Reports("network", "unhealthy")
        /\ {<<"is degraded", "compute">>, <<"is unhealthy", "network">>}
              \subseteq gval[g].warnings

\* the record on disk passes the first four checks: it is there, parses, has
\* every required section, and its metadata carries the three fields
PassesFirstFour ==
    /\ Parses
    /\ \A S \in Blocks : S \in DOMAIN OnDisk
    /\ \A k \in {"format_version", "asset_id", "last_updated"} : k \in DOMAIN OnDisk["metadata"]

\* its asset block carries id, type and status, and format_version is a string
PassesAssetShape ==
    /\ \A k \in {"id", "type", "status"} : k \in DOMAIN OnDisk["asset"]
    /\ IsStr(OnDisk["metadata"]["format_version"])

CallEnded(p, o, res) == pc[p] = "idle" /\ op[p] = o /\ result[p] = res

\* the record in the primary file when the call began, and now
RecordBefore(p) == Parse(snap[p].primary.text).rec
RecordNow == Parse(FileOf("primary").text).rec

\* key k of block b is the same, or as absent, in the two records
SameKey(r1, r2, b, k) ==
    /\ (b \in DOMAIN r1 /\ k \in DOMAIN r1[b]) <=> (b \in DOMAIN r2 /\ k \in DOMAIN r2[b])
    /\ (b \in DOMAIN r1 /\ k \in DOMAIN r1[b]) => r1[b][k] = r2[b][k]

\* C26: a successful UpdateSection(s, patch) on an existing record, no other
\* writer at work, changes only the keys of section s that appear in patch (they
\* take the patch's values, the other keys of s keep theirs) and
\* metadata.last_updated; every other section and block is left unchanged
C26_UpdateFrame ==
    \A p \in Clients :
        (CallEnded(p, "update", "ok") /\ snap[p].primary.exists) =>
            /\ Parse(FileOf("primary").text).ok
            /\ DOMAIN RecordNow = DOMAIN RecordBefore(p) \cup {arg[p].section}
            /\ \A k \in DOMAIN arg[p].patch :
                   RecordNow[arg[p].section][k] = arg[p].patch[k]
            /\ \A b \in Blocks : \A k \in Range(KeyOrder) :
                   \/ b = arg[p].section /\ k \in DOMAIN arg[p].patch
                   \/ b = "metadata" /\ k = "last_updated"
                   \/ SameKey(RecordBefore(p), RecordNow, b, k)

\* a section that holds a real_time table has had its sensor_status alone
\* updated: the table is still there
C26_Witness ==
    \E p \in Clients :
        /\ CallEnded(p, "update", "ok") /\ snap[p].primary.exists
        /\ DOMAIN arg[p].patch = {"sensor_status"}
        /\ "real_time" \in DOMAIN RecordBefore(p)[arg[p].section]
        /\ "real_time" \in DOMAIN RecordNow[arg[p].section]

\* a Write with createBackup = true that returned over an existing primary
BackedUpWrite(p) ==
    CallEnded(p, "write", "ok") /\ arg[p].backup /\ snap[p].primary.exists

\* RestoreFromBackup returns true only when there was a backup, and leaves the
\* primary with the content of the backup and the backup as it was
RestoreCopies ==
    \A p \in Clients :
        CallEnded(p, "restore", "ok") =>
            /\ snap[p].backup.exists
            /\ FileOf("primary") = snap[p].backup
            /\ FileOf("backup") = snap[p].backup

\* RestoreFromBackup returns false only when there was no backup, and then
\* changes nothing
RestoreWithoutBackup ==
    \A p \in Clients :
        CallEnded(p, "restore", "false") =>
            /\ ~snap[p].backup.exists
            /\ FileOf("primary") = snap[p].primary
            /\ FileOf("backup") = snap[p].backup

C27_StaleBackup ==
    \E p \in Clients :
        /\ BackedUpWrite(p)
        /\ FileOf("backup") # snap[p].primary
        /\ FileOf("backup") = File(Dump(OlderRecord))

\* caller p is in, or has ended, an UpdateSection begun when there was no file
UpdateOfMissing(p) == op[p] = "update" /\ ~snap[p].primary.exists

\* C28: an UpdateSection on a record whose file does not exist starts from an
\* empty record that holds only the patched section, which the validation of
\* Write rejects: the call ends with an error; it makes no primary file, leaves
\* the backup as it was and leaves no temporary file.
C28_UpdateOfMissingFails ==
    \A p \in Clients :
        UpdateOfMissing(p) =>
            /\ DOMAIN data[p] = {arg[p].section}
            /\ data[p][arg[p].section] = arg[p].patch
            /\ ~Exists("primary")
            /\ FileOf("backup") = snap[p].backup
            /\ pc[p] = "idle" => result[p] = "validation" /\ ~Exists("tmp")

\* such a call has ended, where a backup was there and stayed
C28_Witness ==
    \E p \in Clients :
        /\ UpdateOfMissing(p) /\ CallEnded(p, "update", "validation")
        /\ snap[p].backup.exists
        /\ ~Exists("primary")

\* the step in which _should_update decides, collect and process having succeeded
Decided(m) ==
    lpc[m] = "process" /\ lpc'[m] # "process" /\ stats'[m].errors = stats[m].errors

\* the change detector said yes for a metric of real_time in this iteration
DetectorSaidYes(m) == \E i \in DOMAIN detected'[m] : detected'[m][i]

\* the seconds since the last successful write
SinceLastWrite(m) == now - stats[m].last_update_time

\* one call of update_section per iteration, on the loop's own section, begun
\* where the loop calls it and nowhere else; the files change during that call only
OneUpdatePerIteration(m) ==
    /\ lpc[m] = "update" /\ lpc'[m] # "update" =>
           /\ lpc'[m] = "updating" /\ pc[m] = "idle" /\ pc'[m] # "idle"
           /\ op'[m] = "update" /\ arg'[m].section = SectionOf(m)
    /\ pc[m] = "idle" /\ pc'[m] # "idle" => lpc[m] = "update"
    /\ lpc[m] = "updating" => lpc'[m] \in {"updating", "sleep"}
    /\ lpc[m] # "updating" => names' = names /\ inodes' = inodes

UpdateEnded(m) == lpc[m] = "updating" /\ lpc'[m] = "sleep"

\* C30: an UpdateSection that fails inside an iteration is treated exactly as a
\* failed collect: errors and consecutive_failures go up by one and the interval
\* is widened (up to max_interval), updates_written and last_update_time stay;
\* updates_written goes up, by one, only when UpdateSection returned without error.
C30_FailedUpdateIsFailure ==
    [][\A m \in Loops :
          /\ UpdateEnded(m) /\ result[m] # "ok" =>
                 /\ IterationFails(m, "updating")
                 /\ stats'[m].errors = stats[m].errors + 1
                 /\ consecutive_failures'[m] = consecutive_failures[m] + 1
                 /\ sampling_interval'[m] >= sampling_interval[m]
                 /\ sampling_interval[m] < max_interval =>
                        sampling_interval'[m] > sampling_interval[m]
                 /\ stats'[m].updates_written = stats[m].updates_written
                 /\ stats'[m].last_update_time = stats[m].last_update_time
          /\ stats'[m].updates_written # stats[m].updates_written =>
                 /\ stats'[m].updates_written = stats[m].updates_written + 1
                 /\ UpdateEnded(m) /\ result[m] = "ok"]_vars

\* a loop over a missing record file: every sample was collected, every update
\* failed, nothing was written and the interval has grown
C30_Witness ==
    \E m \in Loops :
        /\ lpc[m] = "sleep" /\ op[m] = "update" /\ result[m] = "validation"
        /\ iters[m] >= 2
        /\ stats[m].samples_collected = iters[m]
        /\ stats[m].errors = iters[m] /\ consecutive_failures[m] = iters[m]
        /\ stats[m].updates_written = 0 /\ stats[m].last_update_time = 0
        /\ sampling_interval[m] > default_interval

\* the rows of the category table, in the order they are tried
Rows == <<"cpu", "memory", "storage", "connection", "response_time", "status",
          "non-numeric", "numeric">>

\* row r is for this metric name, or for this value
RowMatches(r, name, current) ==
    LET w == Words(name)
    IN  CASE r = "cpu" -> "cpu" \in w /\ "percent" \in w
          [] r = "memory" -> "memory" \in w /\ "percent" \in w
          [] r = "storage" -> ("storage" \in w \/ "disk" \in w) /\ "percent" \in w
          [] r = "connection" -> "connection" \in w
          [] r = "response_time" -> "response_time" \in w \/ "latency" \in w
          [] r = "status" -> "status" \in w \/ "state" \in w \/ "health" \in w
          [] r = "non-numeric" -> current.t # "num"
          [] OTHER -> TRUE

FirstRow(name, current) ==
    Rows[CHOOSE i \in DOMAIN Rows :
            /\ RowMatches(Rows[i], name, current)
            /\ \A j \in 1 .. i - 1 : ~RowMatches(Rows[j], name, current)]

\* the rule of row r, on values held in tenths
RowRule(r, previous, current) ==
    LET delta == Abs(current.n - previous.n)
    IN  CASE r = "cpu" -> delta >= Tenths(5)
          [] r = "memory" -> delta >= Tenths(5)
          [] r = "storage" -> delta >= Tenths(1)
          [] r = "connection" -> delta >= Tenths(10)
          [] r = "response_time" ->
                IF previous.n = 0 THEN current.n > 0 ELSE current.n >= 2 * previous.n
          [] r = "status" -> current # previous
          [] r = "non-numeric" -> current # previous
          [] OTHER ->
                IF previous.n = 0 THEN current.n # 0
                ELSE 100 * delta >= 10 * Abs(previous.n)

\* the step is a should_update call on a metric already recorded, less than
\* 300 seconds after it was recorded
DecidedOnChange ==
    /\ Len(cd_log') = Len(cd_log) + 1
    /\ cd_log'[Len(cd_log')].op = "should_update"
    /\ ~cd_log'[Len(cd_log')].force
    /\ cd_log'[Len(cd_log')].metric \in DOMAIN previous_values
    /\ now - last_update_time[cd_log'[Len(cd_log')].metric] < max_age

\* C31: for a metric already recorded and not yet 300 seconds old, ShouldUpdate
\* returns what the rule of the first matching row of the category table gives
\* (cpu+percent, memory+percent, storage/disk+percent, connection,
\* response_time/latency, status/state/health, non-numeric, default numeric),
\* and for a response time that has not grown it returns false.
C31_FirstMatchingRow ==
    [][DecidedOnChange =>
          LET e == cd_log'[Len(cd_log')]
              previous == previous_values[e.metric]
          IN  /\ e.ret = RowRule(FirstRow(e.metric, e.value), previous, e.value)
              /\ FirstRow(e.metric, e.value) = "response_time"
                    /\ e.value.n <= previous.n => ~e.ret]_vars

\* a name that the connection row and the response-time row both match was
\* judged by the former: from 10.0 to 20.0 is significant by absolute change;
\* and a response time halved was not significant
C31_Witness ==
    /\ Len(cd_log) = 3
    /\ \/ /\ cd_log[1].metric = "connection_latency" /\ cd_log[1].value = Num(100)
          /\ cd_log[2].value = Num(150) /\ ~cd_log[2].ret
          /\ cd_log[3].value = Num(200) /\ cd_log[3].ret
       \/ /\ cd_log[1].metric = "response_time" /\ cd_log[1].value = Num(200)
          /\ cd_log[2].value = Num(100) /\ ~cd_log[2].ret
          /\ cd_log[3].value = Num(200) /\ cd_log[3].ret

\* C35: whenever Repair has returned success=true, by whichever strategy, the
\* file it has left passes Validate: a file that parses but is invalid is not
\* reported as repaired while it is still invalid.
C35_SuccessMeansValid ==
    \A g \in Guardians :
        gpc[g] = "done" /\ gres[g].success => ValidOnDisk(FileOf("primary"))

\* Repair has returned success by partial recovery or emergency rebuild
RebuiltBy(g) ==
    /\ gpc[g] = "done" /\ gres[g].success
    /\ gres[g].repair_strategy \in {"partial_recovery", "emergency_rebuild"}

\* C36: the record that a successful partial recovery or emergency rebuild has
\* left is accepted by the Record Store's own validation before a write, and an
\* UpdateSection of any sensor section that follows returns without error.
C36_RebuiltRecordTakesUpdates ==
    \A g \in Guardians :
        RebuiltBy(g) =>
            /\ Parse(FileOf("primary").text).ok
            /\ validate(Parse(FileOf("primary").text).rec)
            /\ \A p \in Sensors : CallEnded(p, "update", result[p]) => result[p] = "ok"

\* C37: every record that the Store's Write accepts and writes is reported
\* valid=true by the Guardian's Validator.
C37_WrittenIsValid ==
    \A p \in Clients :
        CallEnded(p, "write", "ok") =>
            /\ ValidOnDisk(FileOf("primary"))
            /\ \A g \in Guardians : gval[g].called => gval[g].valid

(***************************************************************************)
(* Claims about the loops of a Distributed Guardian                        *)
(***************************************************************************)
\* the step is the validation of asset a by the loop of shard k
Validates(k, a) ==
    /\ monitor[k].fim = "cycle"
    /\ a \in monitor[k].todo
    /\ a \notin monitor'[k].todo

\* no repair has been counted by shard k
NoRepairCounted(k) ==
    /\ shard_stats[k].repairs_performed = 0
    /\ shard_stats[k].repair_successes = 0
    /\ shard_stats[k].repair_failures = 0

\* C32: with repair disabled the validation cycle is read-only: a step of the
\* shard leaves the primary and the backup file and the whole directory of
\* files as they are, no repair counter leaves 0, and the validation of an
\* invalid file is counted in validations_performed and followed by the next
\* asset, not by a repair.
C32_ReadOnlyWhenRepairDisabled ==
    [][\A k \in Followed :
          ~monitor[k].repair_enabled =>
              /\ names' = names /\ inodes' = inodes
              /\ NoRepairCounted(k)'
              /\ monitor'[k].inflight = {}
              /\ Validates(k, RealAsset) /\ Outcomes(RealAsset) # {"raises"} =>
                    /\ shard_stats'[k].validations_performed =
                           shard_stats[k].validations_performed + 1
                    /\ monitor'[k].fim = "cycle"]_vars

\* repair is disabled and two cycles have found the record file of a1 invalid
C32_Witness ==
    \E k \in Followed :
        /\ ~monitor[k].repair_enabled
        /\ monitor[k].cycles = 2 /\ monitor[k].fim = "sleep"
        /\ RealAsset \in monitor[k].checked
        /\ Outcomes(RealAsset) = {"invalid"}
        /\ shard_stats[k].validations_performed >= 2
        /\ NoRepairCounted(k)

\* C33: a repair handed to the Repairer is counted once in repairs_performed
\* and, when its result is back, once in repair_successes or repair_failures:
\* repairs_performed is the sum of the two plus the repairs in progress, equal
\* to the sum when none is in progress, and never above validations_performed.
C33_RepairAccounting ==
    \A k \in Followed :
        LET s == shard_stats[k] IN
            /\ s.repairs_performed =
                   s.repair_successes + s.repair_failures + Cardinality(monitor[k].inflight)
            /\ monitor[k].inflight = {} =>
                   s.repairs_performed = s.repair_successes + s.repair_failures
            /\ s.repairs_performed <= s.validations_performed

\* one repair has succeeded, one has failed and a third is in progress
C33_Witness ==
    \E k \in Followed :
        /\ shard_stats[k].repair_successes = 1
        /\ shard_stats[k].repair_failures = 1
        /\ monitor[k].inflight # {}
        /\ shard_stats[k].repairs_performed = 3

\* C39: within one shard at most one repair is in progress at any time: while
\* the Repairer works the validation loop stands at its await, neither
\* validating the next asset nor sleeping, and the self-monitor loop can take
\* its next step.
C39_OneRepairAtATime ==
    \A k \in Followed :
        /\ Cardinality(monitor[k].inflight) <= 1
        /\ monitor[k].inflight # {} =>
              /\ monitor[k].fim = "repairing"
              /\ ~ENABLED (\E a \in LoopAssets, v \in {"valid", "invalid", "raises"} :
                              FimValidate(k, a, v))
              /\ ~ENABLED FimBreak(k)
              /\ monitor[k].smon = "sleep" => ENABLED SmonWake(k)
              /\ monitor[k].smon = "top" /\ monitor[k].samples < MaxCycles =>
                    ENABLED SmonTop(k)

\* the Repairer is at work on the record file of a1, another asset of the
\* shard is still to be validated, and the self-monitor has sampled meanwhile
C39_Witness ==
    \E k \in Followed :
        /\ monitor[k].inflight = {RealAsset}
        /\ gpc[RepairerOf(k)] \notin {"idle", "done"}
        /\ monitor[k].todo # {}
        /\ monitor[k].cycles = 1
        /\ monitor[k].samples = 2

\* Stop has been called on a Guardian that was started
Stopped(k) == monitor[k].fim # "off" /\ ~shard_running[k]

\* both loops have returned, and with them the gather of Start
LoopsReturned(k) == monitor[k].fim = "exited" /\ monitor[k].smon = "exited"

\* C34: after Stop on a started Guardian no step validates an asset, begins a
\* cycle or takes a self-monitor sample, and both loops exit, so that Start
\* eventually returns.
C34_StopEndsLoops ==
    /\ [][\A k \in Followed :
            Stopped(k) =>
                /\ monitor'[k].checked = monitor[k].checked
                /\ monitor'[k].cycles = monitor[k].cycles
                /\ monitor'[k].samples = monitor[k].samples
                /\ shard_stats'[k].validations_performed =
                       shard_stats[k].validations_performed
                /\ Stopped(k)']_vars
    /\ \A k \in Followed : Stopped(k) ~> LoopsReturned(k)

\* stopped while the Repairer was at work: the repair was counted, the assets
\* left in the cycle were not validated, and both loops have returned
C34_Witness ==
    \E k \in Followed :
        /\ Stopped(k) /\ LoopsReturned(k)
        /\ monitor[k].todo # {}
        /\ monitor[k].cycles = 1
        /\ shard_stats[k].repairs_performed = 1
        /\ shard_stats[k].repair_successes + shard_stats[k].repair_failures = 1

\* a validation cycle of shard k has run through all it had to validate
CycleComplete(k) == monitor[k].fim = "sleep" /\ monitor[k].todo = {}

\* C40: every record file that was in the assets directory when a validation
\* cycle began and that ShouldMonitor assigns to the shard has been validated
\* when the cycle is complete, whether it was there at Start or came later.
C40_CycleCoversDirectory ==
    \A k \in Followed :
        CycleComplete(k) =>
            \A a \in monitor[k].cycle_dir :
                should_monitor(k, a) => a \in monitor[k].checked

\* the loop of shard k has just handed the record file of a1 to the Repairer
HandedOver(k) ==
    RealAsset \in monitor[k].inflight /\ gpc[RepairerOf(k)] = "idle"

\* C38: self-healing converges: a record file found invalid and repaired with
\* success, which nobody but the Guardian modifies, is found valid in the
\* cycles that follow; it is not found invalid and handed to the Repairer
\* again, cycle after cycle.
C38_HealedIsNotRepairedAgain ==
    \A k \in Followed :
        HandedOver(k) => ~gres[RepairerOf(k)].success

====
